---- MODULE Spec2Model ----
(***************************************************************************)
(* The claim verification pipeline of backend-jdsb/fact_checker.py:        *)
(* FactChecker.verify_claim with its collaborators (the Redis cache, the   *)
(* Serper evidence search, the Gemini primary judge and the GPT secondary  *)
(* judge), run by up to two concurrent asyncio tasks; and the HTTP layer   *)
(* of backend-jdsb/app.py and security.py in front of it (the rate         *)
(* limiting middleware, the token dependency, the routes that verify, the  *)
(* record POST /api/verify_claim saves and GET /api/claims lists).         *)
(*                                                                         *)
(* Conventions.  A Python str is a sequence of tokens (a claim: of its     *)
(* characters).  An optional value is None (<<>>) or Some(v) (<<v>>).      *)
(* A Python float score is the integer of the same value.                  *)
(***************************************************************************)
EXTENDS Integers, Sequences, FiniteSets, TLC

None == <<>>
Some(v) == <<v>>
Get(o) == o[1]

(***************************************************************************)
(* Bounds of the model.                                                    *)
(***************************************************************************)
\* the number of items in one search-provider response
MaxResults == 2
\* the number of times a full time-to-live passes
MaxTicks == 1
\* the number of items in one response of the one-call specification
MaxItems == 3
\* the longest ranked answer of the search provider
MaxRanked == 6
\* the number of lines of a text of the primary judge
MaxLines == 4
\* the number of HTTP requests of one behaviour
MaxRequests == 4
\* the number of times the clock of the HTTP layer advances, and by how much
MaxClockTicks == 2
ClockStep == 30

\* the tasks of the event loop, each of which makes one verify_claim call;
\* they are numbered in the order of their calls
Tasks == {1, 2}

\* the task of the one call of the specifications that make one
Caller == 1

(***************************************************************************)
(* Inputs.                                                                 *)
(***************************************************************************)
\* the (claim, context) pairs of the calls.  Claims that are rejected:
\* None, "", " ", "ab", " ab "; claims that are verified: "abc", alone and
\* with the context "d", and "abcd"
RequestInputs ==
    { <<None, None>>, <<Some(<<>>), None>>, <<Some(<<" ">>), None>>,
      <<Some(<<"a", "b">>), None>>, <<Some(<<" ", "a", "b", " ">>), None>>,
      <<Some(<<"a", "b", "c">>), None>>, <<Some(<<"a", "b", "c">>), Some(<<"d">>)>>,
      <<Some(<<"a", "b", "c", "d">>), None>> }

(***************************************************************************)
(* str.strip()                                                             *)
(***************************************************************************)
IsSpace(ch) == ch \in {" ", "\n"}

RECURSIVE LStrip(_)
LStrip(s) == IF s # <<>> /\ IsSpace(Head(s)) THEN LStrip(Tail(s)) ELSE s

RECURSIVE RStrip(_)
RStrip(s) ==
    IF s # <<>> /\ IsSpace(s[Len(s)]) THEN RStrip(SubSeq(s, 1, Len(s) - 1)) ELSE s

Strip(s) == RStrip(LStrip(s))

(***************************************************************************)
(* verify_claim: validation, cache key, result shapes                      *)
(***************************************************************************)
\* the least trimmed length of a claim that is verified
MinClaimLen == 3

TooShortUntrimmed(claim) ==
    \/ claim = None
    \/ Get(claim) = <<>>
    \/ Len(Get(claim)) < MinClaimLen
\* not claim or len(claim.strip()) < 3
TooShort(claim) ==
    \/ claim = None
    \/ Get(claim) = <<>>
    \/ Len(Strip(Get(claim))) < MinClaimLen

\* context or ''
ContextOrEmpty(context) == IF context = None THEN <<>> ELSE Get(context)

\* f"factcheck:{hashlib.md5((claim + (context or '')).encode()).hexdigest()}"
\* The digest is modelled as collision free: it is the hashed text itself.
cache_key(claim, context) == <<"factcheck:", Get(claim) \o ContextOrEmpty(context)>>

\* redis_client.setex(cache_key, 3600 * 24, ...)
CacheTtl == 3600 * 24

PlaceholderResult(claim) ==
    [ text |-> claim, score |-> 50, verdict |-> "neutral",
      explanation |-> <<"Claim too short or empty">>,
      sources |-> <<>>, evidence |-> <<>>, reviews |-> <<>> ]

ErrorResult(claim, e) ==
    [ text |-> claim, score |-> 50, verdict |-> "error",
      explanation |-> <<"Error verifying claim: ">> \o e,
      sources |-> <<>>, evidence |-> <<>>, reviews |-> <<>> ]

\* [e.get("link") for e in evidence if e.get("link")]
RECURSIVE SourcesOf(_)
SourcesOf(evidence) ==
    IF evidence = <<>> THEN <<>>
    ELSE IF Head(evidence).link # ""
         THEN <<Head(evidence).link>> \o SourcesOf(Tail(evidence))
         ELSE SourcesOf(Tail(evidence))

FinalResult(claim, score, verdict, explanation, evidence, gpt_score, gpt_explanation) ==
    [ text |-> claim, score |-> score, verdict |-> verdict,
      explanation |-> explanation, evidence |-> evidence,
      sources |-> SourcesOf(evidence), reviews |-> <<>>,
      gpt_score |-> gpt_score, gpt_explanation |-> gpt_explanation ]

(***************************************************************************)
(* json.dumps / json.loads of a result                                     *)
(***************************************************************************)
JsonOfField(k, v) ==
    CASE k \in {"score"} -> <<"number", v>>
      [] k \in {"gpt_score"} -> IF v = None THEN <<"null">> ELSE <<"number", Get(v)>>
      [] k \in {"text"} -> IF v = None THEN <<"null">> ELSE <<"string", Get(v)>>
      [] k \in {"verdict", "explanation", "gpt_explanation"} -> <<"string", v>>
      [] OTHER -> <<"array", v>>

FieldOfJson(k, j) ==
    CASE j[1] = "null" -> None
      [] j[1] = "number" -> IF k = "gpt_score" THEN Some(j[2]) ELSE j[2]
      [] j[1] = "string" -> IF k = "text" THEN Some(j[2]) ELSE j[2]
      [] OTHER -> j[2]

json_loads_null_as_zero(doc) ==
    [k \in DOMAIN doc |-> IF doc[k][1] = "null" THEN Some(0) ELSE FieldOfJson(k, doc[k])]

\* a serialisation that loses the sources
json_dumps_without_sources(obj) ==
    [k \in DOMAIN obj \ {"sources"} |-> JsonOfField(k, obj[k])]

json_dumps(obj) == [k \in DOMAIN obj |-> JsonOfField(k, obj[k])]

json_loads(doc) == [k \in DOMAIN doc |-> FieldOfJson(k, doc[k])]

(***************************************************************************)
(* The Redis store: a set of entries [key, value, expires]                 *)
(***************************************************************************)
\* redis_client.get(cache_key): the value of the live entry, or None
redis_get(store, key, time) ==
    LET live == {e \in store : e.key = key /\ e.expires > time}
    IN  IF live = {} THEN None ELSE Some((CHOOSE e \in live : TRUE).value)

\* redis_client.setex(cache_key, ttl, value)
redis_setex(store, key, ttl, value, time) ==
    {e \in store : e.key # key}
        \cup {[key |-> key, value |-> value, expires |-> time + ttl]}

\* the store drops an entry when its time to live is over
redis_expire(store, time) == {e \in store : e.expires > time}

RedisError == <<"Error connecting to redis">>

(***************************************************************************)
(* _search_for_evidence                                                    *)
(***************************************************************************)
SeqsUpTo(S, n) == UNION {[1..k -> S] : k \in 0..n}

SearchLinks == {"", "u1"}

SearchItems == {[title |-> "t", link |-> l, snippet |-> "s"] : l \in SearchLinks}

\* what the search provider answers: a transport error or timeout, a
\* non-200 status, or a 200 whose body holds the list "organic"
SearchReplies ==
    {[kind |-> "error"], [kind |-> "status", status |-> 500]}
        \cup {[kind |-> "status", status |-> 200, organic |-> o] :
                o \in SeqsUpTo(SearchItems, MaxResults)}

\* the search fails, or answers with one result
FairSearchReplies ==
    { [kind |-> "error"],
      [kind |-> "status", status |-> 200,
       organic |-> <<[title |-> "t", link |-> "u1", snippet |-> "s"]>>] }

RECURSIVE ExtractEvidenceNoSeen(_, _)
ExtractEvidenceNoSeen(organic, seen_urls) ==
    IF organic = <<>> THEN <<>>
    ELSE LET url == Head(organic).link
         IN  IF url # "" /\ url \notin seen_urls
             THEN <<[title |-> Head(organic).title, link |-> url,
                     snippet |-> Head(organic).snippet, source |-> "web_search"]>>
                  \o ExtractEvidenceNoSeen(Tail(organic), seen_urls)
             ELSE ExtractEvidenceNoSeen(Tail(organic), seen_urls)
\* a loop that keeps the results without a link
RECURSIVE ExtractEvidenceKeepsNoLink(_, _)
ExtractEvidenceKeepsNoLink(organic, seen_urls) ==
    IF organic = <<>> THEN <<>>
    ELSE LET url == Head(organic).link
         IN  IF url \notin seen_urls
             THEN <<[title |-> Head(organic).title, link |-> url,
                     snippet |-> Head(organic).snippet, source |-> "web_search"]>>
                  \o ExtractEvidenceKeepsNoLink(Tail(organic), seen_urls \cup {url})
             ELSE ExtractEvidenceKeepsNoLink(Tail(organic), seen_urls)

\* the loop over results.get('organic', [])
RECURSIVE ExtractEvidence(_, _)
ExtractEvidence(organic, seen_urls) ==
    IF organic = <<>> THEN <<>>
    ELSE LET url == Head(organic).link
         IN  IF url # "" /\ url \notin seen_urls
             THEN <<[title |-> Head(organic).title, link |-> url,
                     snippet |-> Head(organic).snippet, source |-> "web_search"]>>
                  \o ExtractEvidence(Tail(organic), seen_urls \cup {url})
             ELSE ExtractEvidence(Tail(organic), seen_urls)

\* response.json() of a body that is no JSON raises
IsJson(reply) == "organic" \in DOMAIN reply

\* result.get(...) of an item that is no object raises
IsObject(item) == "link" \in DOMAIN item

EvidenceOfSkippingBadItems(reply) ==
    IF reply.kind = "status" /\ reply.status = 200 /\ IsJson(reply)
    THEN ExtractEvidence(SelectSeq(reply.organic, IsObject), {})
    ELSE <<>>
\* the evidence returned for a reply of the provider: the extracted list, or
\* [] for a non-200 status and for any exception (the request failed, the
\* body is no JSON, an item is no object)
EvidenceOf(reply) ==
    IF /\ reply.kind = "status" /\ reply.status = 200
       /\ IsJson(reply)
       /\ \A i \in 1..Len(reply.organic) : IsObject(reply.organic[i])
    THEN ExtractEvidence(reply.organic, {})
    ELSE <<>>

\* the items of the responses of the one-call specification: with the link
\* u1 under one of two titles, with the link u2, with no link, or no object
\* at all
AllSearchItems ==
    { [title |-> "t1", link |-> "u1", snippet |-> "s"],
      [title |-> "t2", link |-> "u1", snippet |-> "s"],
      [title |-> "t1", link |-> "u2", snippet |-> "s"],
      [title |-> "t1", link |-> "", snippet |-> "s"],
      [malformed |-> "item"] }

AllSearchReplies ==
    {[kind |-> "error"], [kind |-> "status", status |-> 500],
     [kind |-> "status", status |-> 200, malformed |-> "body"]}
        \cup {[kind |-> "status", status |-> 200, organic |-> o] :
                o \in SeqsUpTo(AllSearchItems, MaxItems)}

\* the titles and links of a ranked answer of the search provider
RankedTitles == <<"r1", "r2", "r3", "r4", "r5", "r6", "r7", "r8">>
RankedLinks == <<"v1", "v2", "v3", "v4", "v5", "v6", "v7", "v8">>

\* answers that hold up to MaxRanked results with links of their own
RankedSearchReplies ==
    {[kind |-> "status", status |-> 200,
      organic |-> [i \in 1..k |-> [title |-> RankedTitles[i], link |-> RankedLinks[i],
                                   snippet |-> "s"]]] : k \in 1..MaxRanked}

(***************************************************************************)
(* _verify_with_llm: the prompt                                            *)
(***************************************************************************)
JudgeEvidenceLimit == 5

\* a prompt that shows every evidence item
EvidenceTextUnlimited(evidence) ==
    [i \in 1..Len(evidence) |->
        [source |-> i, title |-> evidence[i].title, snippet |-> evidence[i].snippet]]

\* evidence_text: "Source {i+1}: {title}\n{snippet}" for enumerate(evidence[:5])
EvidenceText(evidence) ==
    LET shown == SubSeq(evidence, 1,
                        IF Len(evidence) < JudgeEvidenceLimit THEN Len(evidence)
                        ELSE JudgeEvidenceLimit)
    IN  [i \in 1..Len(shown) |->
            [source |-> i, title |-> shown[i].title, snippet |-> shown[i].snippet]]

\* prompt = f"""... Claim: "{claim}" ... Evidence: {evidence_text} ..."""
JudgePrompt(claim, evidence) ==
    [claim |-> claim, evidence_text |-> EvidenceText(evidence)]

(***************************************************************************)
(* _verify_with_llm: the parse of the judge's text                         *)
(***************************************************************************)
\* float(score_str): Some(value), or None for a ValueError
ParseFloat(tok) ==
    CASE tok = "150" -> Some(150)
      [] tok = "-10" -> Some(-10)
      [] tok = "42" -> Some(42)
      [] tok = "50" -> Some(50)
      [] tok = "0" -> Some(0)
      [] tok = "1" -> Some(1)
      [] tok = "2" -> Some(2)
      [] tok = "100" -> Some(100)
      [] OTHER -> None

\* str.lower()
Lower(tok) ==
    CASE tok = "TRUE" -> "true"
      [] tok = "False" -> "false"
      [] tok = "MAYBE" -> "maybe"
      [] OTHER -> tok

\* max(0.0, min(100.0, score))
ClampNoUpper(score) == IF score < 0 THEN 0 ELSE score
Clamp(score) == IF score < 0 THEN 0 ELSE IF score > 100 THEN 100 ELSE score

VerdictForwarded(old, v) == v
\* if v in ["true", "false", "partial"]: verdict = v
VerdictAfter(old, v) == IF v \in {"true", "false", "partial"} THEN v ELSE old

\* a loop in which a score that does not parse resets what was parsed so far
ParseLineFailureResets(acc, line) ==
    CASE line.label = "SCORE:" ->
           IF ParseFloat(line.value) = None
           THEN [score |-> 50, verdict |-> "neutral", explanation |-> <<>>]
           ELSE [acc EXCEPT !.score = Clamp(Get(ParseFloat(line.value)))]
      [] line.label = "VERDICT:" ->
           [acc EXCEPT !.verdict = VerdictAfter(acc.verdict, Lower(line.value))]
      [] line.label = "EXPLANATION:" ->
           [acc EXCEPT !.explanation = IF line.value = "" THEN <<>> ELSE <<line.value>>]
      [] OTHER -> acc

\* one pass of the loop "for line in lines"; a line is [label, value]: the
\* label it starts with ("" when none of the three) and the stripped text
\* after the label's colon (which holds no further colon)
ParseLine(acc, line) ==
    CASE line.label = "SCORE:" ->
           [acc EXCEPT !.score = IF ParseFloat(line.value) = None THEN 50
                                 ELSE Clamp(Get(ParseFloat(line.value)))]
      [] line.label = "VERDICT:" ->
           [acc EXCEPT !.verdict = VerdictAfter(acc.verdict, Lower(line.value))]
      [] line.label = "EXPLANATION:" ->
           [acc EXCEPT !.explanation = IF line.value = "" THEN <<>> ELSE <<line.value>>]
      [] OTHER -> acc

RECURSIVE ParseLines(_, _)
ParseLines(acc, lines) ==
    IF lines = <<>> THEN acc ELSE ParseLines(ParseLine(acc, Head(lines)), Tail(lines))

\* the text of a line, as tokens
LineText(line) ==
    (IF line.label = "" THEN <<>> ELSE <<line.label>>)
        \o (IF line.value = "" THEN <<>> ELSE <<line.value>>)

\* "\n".join(lines)
RECURSIVE JoinWithNewlines(_)
JoinWithNewlines(lines) ==
    IF lines = <<>> THEN <<>>
    ELSE IF Len(lines) = 1 THEN LineText(Head(lines))
    ELSE LineText(Head(lines)) \o <<"\n">> \o JoinWithNewlines(Tail(lines))

\* "\n".join(lines[2:]).strip()
JoinLines(lines) == Strip(JoinWithNewlines(lines))

\* the dictionary returned for the response text
ParseResponse(lines) ==
    LET acc == ParseLines([score |-> 50, verdict |-> "neutral", explanation |-> <<>>],
                          lines)
        explanation ==
            IF acc.explanation = <<>> /\ Len(lines) > 2
            THEN JoinLines(SubSeq(lines, 3, Len(lines)))
            ELSE acc.explanation
    IN  [score |-> acc.score, verdict |-> acc.verdict,
         explanation |-> IF explanation = <<>> THEN <<"No explanation provided">>
                         ELSE explanation]

Line(label, value) == [label |-> label, value |-> value]

\* what the judge answers: an error of the call, or a text
GeminiTexts ==
    { <<Line("SCORE:", "150"), Line("VERDICT:", "TRUE"), Line("EXPLANATION:", "why")>>,
      <<Line("SCORE:", "-10"), Line("VERDICT:", "maybe")>> }

GeminiReplies ==
    {[kind |-> "raise", error |-> <<"Gemini API error">>]}
        \cup {[kind |-> "text", lines |-> l] : l \in GeminiTexts}

\* the lines a text of the judge is made of: a score that parses and one
\* that does not, a verdict of the three and one that is not, an explanation
\* and an empty one, a line of prose and an empty line
JudgeLines ==
    { Line("SCORE:", "42"), Line("SCORE:", "high"),
      Line("VERDICT:", "TRUE"), Line("VERDICT:", "maybe"),
      Line("EXPLANATION:", "why"), Line("EXPLANATION:", ""),
      Line("", "prose"), Line("", "") }

\* response_text.split('\n') of every text of k lines
GeminiTextsOf(k) == [1..k -> JudgeLines]

\* the call of the judge raises
GeminiRaises == [kind |-> "raise", error |-> <<"Gemini API error">>]

\* the judge answers with the text of these lines
GeminiText(lines) == [kind |-> "text", lines |-> lines]

(***************************************************************************)
(* get_gpt_score: the parse of the secondary judge's content               *)
(***************************************************************************)
\* int(result["score"]) of a JSON value: the integer, or the exception raised
ParseInt(j) ==
    CASE j[1] = "number" -> [error |-> "", value |-> j[2]]
      [] j[1] = "string" -> IF ParseFloat(j[2]) = None
                            THEN [error |-> "ValueError", value |-> 0]
                            ELSE [error |-> "", value |-> Get(ParseFloat(j[2]))]
      [] OTHER -> [error |-> "TypeError", value |-> 0]

ClampIntNoLower(n) == IF n > 100 THEN 100 ELSE n
\* min(100, max(0, ...))
ClampInt(n) == IF n < 0 THEN 0 ELSE IF n > 100 THEN 100 ELSE n

\* what the secondary judge answers: an error of the call, or a content
\* that is no JSON, or a JSON object with some of the fields score, explanation
OpenAIReplies ==
    { [kind |-> "raise"],
      [kind |-> "content", json |-> TRUE, fields |-> {"score", "explanation"},
       score |-> <<"number", 150>>, explanation |-> <<"g">>],
      [kind |-> "content", json |-> TRUE, fields |-> {"score", "explanation"},
       score |-> <<"number", 50>>, explanation |-> <<"g">>] }

\* the contents of the one-call specification: no JSON; a JSON object without
\* "score", or without "explanation"; a score that is a number, a numeral, a
\* word, or null
OpenAIScores ==
    { <<"number", 150>>, <<"number", -10>>, <<"number", 50>>,
      <<"string", "42">>, <<"string", "high">>, <<"null">> }

AllOpenAIReplies ==
    { [kind |-> "raise"],
      [kind |-> "content", json |-> FALSE, fields |-> {},
       score |-> <<"null">>, explanation |-> <<>>],
      [kind |-> "content", json |-> TRUE, fields |-> {"explanation"},
       score |-> <<"null">>, explanation |-> <<"g">>],
      [kind |-> "content", json |-> TRUE, fields |-> {"score"},
       score |-> <<"number", 50>>, explanation |-> <<>>] }
        \cup {[kind |-> "content", json |-> TRUE, fields |-> {"score", "explanation"},
               score |-> sc, explanation |-> <<"g">>] : sc \in OpenAIScores}

GptNotConfigured ==
    [gpt_score |-> None, gpt_explanation |-> <<"OpenAI API key not set">>]

GptResultOfLenient(reply) ==
    IF reply.kind = "raise"
    THEN [gpt_score |-> None, gpt_explanation |-> <<"Error calling GPT API: ", "api error">>]
    ELSE IF ~reply.json
    THEN [gpt_score |-> None,
          gpt_explanation |-> <<"Error parsing GPT response: ", "JSONDecodeError">>]
    ELSE IF "score" \notin reply.fields \/ ParseInt(reply.score).error # ""
    THEN [gpt_score |-> None,
          gpt_explanation |-> <<"Error parsing GPT response: ", "no score">>]
    ELSE [gpt_score |-> Some(ClampInt(ParseInt(reply.score).value)),
          gpt_explanation |-> reply.explanation]
\* the dictionary get_gpt_score returns for a reply of the API
GptResultOf(reply) ==
    IF reply.kind = "raise"
    THEN [gpt_score |-> None, gpt_explanation |-> <<"Error calling GPT API: ", "api error">>]
    ELSE IF ~reply.json
    THEN [gpt_score |-> None,
          gpt_explanation |-> <<"Error parsing GPT response: ", "JSONDecodeError">>]
    ELSE IF "score" \notin reply.fields
    THEN [gpt_score |-> None,
          gpt_explanation |-> <<"Error parsing GPT response: ", "KeyError: score">>]
    ELSE IF ParseInt(reply.score).error = "ValueError"
    THEN [gpt_score |-> None,
          gpt_explanation |-> <<"Error parsing GPT response: ", "ValueError">>]
    ELSE IF ParseInt(reply.score).error = "TypeError"
    THEN [gpt_score |-> None, gpt_explanation |-> <<"Error calling GPT API: ", "TypeError">>]
    ELSE IF "explanation" \notin reply.fields
    THEN [gpt_score |-> None,
          gpt_explanation |-> <<"Error parsing GPT response: ", "KeyError: explanation">>]
    ELSE [gpt_score |-> Some(ClampInt(ParseInt(reply.score).value)),
          gpt_explanation |-> reply.explanation]

(***************************************************************************)
(* The state                                                               *)
(***************************************************************************)
(***************************************************************************)
(* security.py: the token dependency and the rate limiter                  *)
(***************************************************************************)
\* the bearer tokens of a request: None without an Authorization header, or
\* a token that does not verify, one that has expired, one whose payload
\* has no "sub", and a valid one
Tokens == {None} \cup {Some(k) : k \in {"invalid", "expired", "nosub", "valid"}}

\* jwt.decode(token, JWT_SECRET, algorithms=[ALGORITHM]): the payload, or the
\* JWTError raised
JwtDecode(token) ==
    CASE token = "invalid" -> [error |-> "JWTError"]
      [] token = "expired" -> [error |-> "ExpiredSignatureError"]
      [] token = "nosub" -> [payload |-> [sub |-> None]]
      [] OTHER -> [payload |-> [sub |-> Some("alice")]]

\* get_current_user: the user of the token, or None
get_current_user(token) ==
    IF token = None THEN None
    ELSE LET decoded == JwtDecode(Get(token))
         IN  IF "error" \in DOMAIN decoded THEN None
             ELSE IF decoded.payload.sub = None THEN None
             ELSE Some([username |-> Get(decoded.payload.sub)])

\* RATE_LIMIT_PER_MINUTE = int(os.getenv("RATE_LIMIT_PER_MINUTE", "60")), set
\* to a small number
RATE_LIMIT_PER_MINUTE == 2

\* window = 60
Window == 60

\* request.client.host: two IPv4 clients and an IPv6 client
Clients == {"10.0.0.1", "10.0.0.2", "::1"}

\* client_ip.split(":")
IpFields(client_ip) == IF client_ip = "::1" THEN <<"", "", "1">> ELSE <<client_ip>>

\* f"{client_ip}:{current_time // window}", as the fields split(":") gives
MemoryKey(client_ip, w) == IpFields(client_ip) \o <<ToString(w)>>

\* f"rate_limit:{client_ip}:{current_time // window}", likewise
RedisKey(client_ip, w) == <<"rate_limit">> \o IpFields(client_ip) \o <<ToString(w)>>

\* the else branch of dispatch: count in rate_limit_store, drop the keys
\* whose second field is not the window, then read the count of the key
MemoryLimit(store, client_ip, current_time) ==
    LET w == current_time \div Window
        key == MemoryKey(client_ip, w)
        counted == IF key \in DOMAIN store THEN [store EXCEPT ![key] = @ + 1]
                   ELSE store @@ (key :> 1)
        kept == {k \in DOMAIN counted : k[2] = ToString(w)}
        cleaned == [k \in kept |-> counted[k]]
    IN  [store |-> cleaned,
         outcome |-> IF key \notin kept THEN "KeyError"
                     ELSE IF cleaned[key] > RATE_LIMIT_PER_MINUTE THEN "429"
                     ELSE "pass"]

\* the Redis branch of dispatch: incr, expire on the first count, compare
RedisLimit(keys, client_ip, current_time) ==
    LET w == current_time \div Window
        key == RedisKey(client_ip, w)
        live == [k \in {k \in DOMAIN keys : keys[k].expires > current_time} |-> keys[k]]
        current == IF key \in DOMAIN live THEN live[key].count + 1 ELSE 1
        after == IF current = 1
                 THEN live @@ (key :> [count |-> 1, expires |-> current_time + Window])
                 ELSE [live EXCEPT ![key].count = current]
    IN  [store |-> after,
         outcome |-> IF current > RATE_LIMIT_PER_MINUTE THEN "429" ELSE "pass"]

(***************************************************************************)
(* app.py: the routes                                                      *)
(***************************************************************************)
Endpoints == {"/analyze", "/analyze_url", "/api/verify_claim", "/health"}

\* the text of a request: ClaimRequest.text, the text of the page of
\* UrlRequest.url, claim_data["claim"]
Texts == {<<>>, <<"a", "b", "c">>}

\* the routes that declare current_user = Depends(get_current_user)
HasUserDependency(endpoint) == endpoint \in {"/analyze", "/analyze_url"}

\* the claims a route hands to verify_claim: extract_claims(text), which is
\* [text.strip()] for a text of less than 50 characters, in analyze_text and
\* analyze_url; the stripped claim, unless it is empty, in verify_claim_stub
ClaimsOf(endpoint, text) ==
    CASE endpoint \in {"/analyze", "/analyze_url"} -> <<Strip(text)>>
      [] endpoint = "/api/verify_claim" ->
           IF Strip(text) = <<>> THEN <<>> ELSE <<Strip(text)>>
      [] OTHER -> <<>>

\* the windows the clock of the HTTP layer goes through
Windows == 0..((MaxClockTicks * ClockStep) \div Window)

(***************************************************************************)
(* app.py: verify_claim_stub after the pipeline has returned, and          *)
(* get_claims.  A source is a str (a link of the pipeline's result) or a   *)
(* dict with a name and a url (made by the handler); a url is a text.      *)
(***************************************************************************)
Link(url) == [kind |-> "str", url |-> <<url>>]
Source(name, url) == [kind |-> "dict", name |-> name, url |-> url]

\* the sources of the pipeline's result, as the handler holds them
Links(sources) == [i \in 1..Len(sources) |-> Link(sources[i])]

\* str.replace(old, new)
Replace(s, old, new) == [i \in 1..Len(s) |-> IF s[i] = old THEN new ELSE s[i]]

\* a handler that takes only an absent score for a missing one
ScoreOrDefaultKeepsZero(score) == score
\* if not result.get("score"): result["score"] = 50
ScoreOrDefault(score) == IF score = 0 THEN 50 ELSE score

\* the sample sources added when the result has none
DefaultSources(verdict, claim) ==
    IF verdict = "true"
    THEN << Source("Verified Source", <<"https://www.factcheck.org">>),
            Source("Research Database", <<"https://www.science.org">>) >>
    ELSE IF verdict = "false"
    THEN << Source("Fact Checking Organization", <<"https://www.politifact.com">>),
            Source("Misinformation Research", <<"https://www.snopes.com">>) >>
    ELSE << Source("Research Article",
                   <<"https://www.google.com/search?q=">> \o Replace(claim, " ", "+")) >>

\* the result after "Ensure we have all required fields", the claim text
\* and the default sources
StubResult(result, claim) ==
    LET r1 == [result EXCEPT
                 !.explanation = IF @ = <<>> THEN <<"Analysis not available">> ELSE @,
                 !.score = ScoreOrDefault(@),
                 !.verdict = IF @ = "" THEN "neutral" ELSE @,
                 !.text = Some(claim)]
    IN  [r1 EXCEPT !.sources = IF @ = <<>> THEN DefaultSources(r1.verdict, claim)
                               ELSE Links(@)]

\* score_value = result.get("score", 50); if score_value > 1: score_value =
\* score_value / 100.  The value is the fraction num / den.
ScoreValue(score) ==
    IF score > 1 THEN [num |-> score, den |-> 100] ELSE [num |-> score, den |-> 1]

IsDict(source) == source.kind = "dict"

FallbackSource == Source("FactCheck Database", <<"https://factcheck.org">>)

\* formatted_sources: the sources that are dicts, or the one default source
FormattedSources(sources) ==
    LET dicts == SelectSeq(sources, IsDict)
    IN  IF dicts = <<>> THEN <<FallbackSource>> ELSE dicts

\* json.dumps of a list of sources, and json.loads of the column (None is
\* the NULL column)
SourcesDumps(formatted) == Some([json |-> "array", items |-> formatted])
SourcesLoads(column) == IF column = None THEN <<>> ELSE Get(column).items

\* sources_str
SourcesStr(result) ==
    IF result.sources # <<>>
    THEN SourcesDumps(FormattedSources(result.sources))
    ELSE SourcesDumps(<<FallbackSource>>)

\* FactCheck(claim=..., verdict=..., explanation=..., score=..., sources=...)
NewFactCheck(claim, result) ==
    [ claim |-> claim, verdict |-> result.verdict,
      explanation |-> result.explanation,
      score |-> ScoreValue(result.score),
      sources |-> SourcesStr(result) ]

\* round(n / d), to the nearest integer and to the even one of two
Round(n, d) ==
    LET q == n \div d
        r == n % d
    IN  IF 2 * r < d THEN q
        ELSE IF 2 * r > d THEN q + 1
        ELSE IF q % 2 = 0 THEN q ELSE q + 1

Reverse(seq) == [i \in 1..Len(seq) |-> seq[Len(seq) + 1 - i]]

\* one entry of claims_list
ClaimEntry(check) ==
    [ text |-> check.claim, verdict |-> check.verdict,
      explanation |-> IF check.explanation = <<>>
                      THEN <<"No explanation available.">> ELSE check.explanation,
      score |-> IF check.score.num = 0 THEN 0
                ELSE Round(check.score.num * 100, check.score.den),
      sources |-> SourcesLoads(check.sources) ]

\* get_claims: the records, the newest first
get_claims(records) ==
    LET newest == Reverse(records)
    IN  [i \in 1..Len(newest) |-> ClaimEntry(newest[i])]

\* verify_claim_stub from the return of the pipeline to its own return: the
\* defaults, the record (whose commit may fail, which is logged only) and
\* the response.  h is the HTTP layer, tk the frame of the pipeline's call.
StubFinish(h, tk, committed) ==
    IF /\ h.verified # None
       /\ Get(h.verified).endpoint = "/api/verify_claim"
       /\ tk.pc = "done"
    THEN LET claim == Get(tk.claim)
             result == StubResult(Get(tk.result), claim)
         IN  [h EXCEPT !.response = Some([status |-> 200, result |-> result]),
                       !.db = IF committed THEN Append(@, NewFactCheck(claim, result))
                              ELSE @]
    ELSE h

\* the texts posted to /api/verify_claim
StubTexts == { <<>>, <<"a", "b">>, <<"a", "b", "c">>, <<"a", " ", "b">> }

\* the texts of the judge that report the scores
ScoreTokens == {"-10", "0", "1", "2", "42", "100", "150"}
ScoreReplies ==
    { [kind |-> "raise", error |-> <<"Gemini API error">>] }
        \cup { [kind |-> "text",
                lines |-> << [label |-> "SCORE:", value |-> sc],
                             [label |-> "VERDICT:", value |-> v],
                             [label |-> "EXPLANATION:", value |-> "why"] >>] :
                  sc \in ScoreTokens, v \in {"TRUE", "maybe"} }

VARIABLES
    REDIS_AVAILABLE,   \* the module's flag: redis.from_url did not raise
    SERPER_API_KEY,    \* whether the search credential is set
    OPENAI_API_KEY,    \* whether the secondary judge's credential is set
    gemini_model,      \* whether the primary judge's model was configured
    redis,             \* the entries of the store
    now,               \* the wall clock, in seconds
    task,              \* per task: the frame of its verify_claim call
    heard,             \* what the search provider and the secondary judge
                       \* answered to the call of the one-call specification
    http               \* the HTTP layer: its clock, the counts of the rate
                       \* limiter, and a record of the requests handled

vars == <<REDIS_AVAILABLE, SERPER_API_KEY, OPENAI_API_KEY, gemini_model,
          redis, now, task, heard, http>>

config == <<REDIS_AVAILABLE, SERPER_API_KEY, OPENAI_API_KEY, gemini_model>>

\* the collaborators a call has used: the adapters it has invoked (search,
\* primary, secondary), the network requests it has sent (net) and its reads
\* and writes of the store
NoCalls ==
    [search |-> 0, primary |-> 0, secondary |-> 0, net |-> {},
     cache_get |-> 0, cache_set |-> 0]

\* A frame.  pc: where the coroutine stands ("gathering", "primary" and
\* "secondary" are its three awaits).  The locals evidence .. gpt_explanation
\* are unbound until assigned and are read only after that; final_result and
\* result are None until assigned.  The other fields record the call's
\* history: began, the time of the call; pred, the calls that had returned
\* when it began; lookup, how the
\* cache read ended ("none", "failed", "miss", "hit"); stored, how the cache
\* write ended ("none", "failed", "ok"); written, the time of that write; exc, the exception that reached the
\* outer try; ai_reply, what the primary judge answered; ai_failed, whether
\* the primary step raised; primary, the outcome of the primary step;
\* gpt_res, what get_gpt_score returned; stages, the steps run; ncalls.
Frame(claim, context, pred) ==
    [ pc |-> "validating", claim |-> claim, context |-> context,
      evidence |-> <<>>, score |-> 0, verdict |-> "", explanation |-> <<>>,
      gpt_score |-> None, gpt_explanation |-> <<>>,
      final_result |-> None, result |-> None,
      began |-> now, pred |-> pred, lookup |-> "none", stored |-> "none",
      written |-> None, exc |-> None,
      ai_reply |-> None, ai_failed |-> FALSE, primary |-> None, gpt_res |-> None,
      gpt_asked |-> None, prompt |-> None,
      stages |-> <<"Validating">>, ncalls |-> NoCalls ]

IdleFrame ==
    [Frame(None, None, {}) EXCEPT !.pc = "idle", !.stages = <<>>, !.began = 0]

\* return r
Returned(tk, r) ==
    [tk EXCEPT !.pc = "done", !.result = Some(r), !.stages = Append(@, "Done")]

TopLevelReraise(tk, e) == [tk EXCEPT !.pc = "raised", !.exc = Some(e)]
\* except Exception as e: return {..., "verdict": "error", ...}
TopLevelCatch(tk, e) ==
    Returned([tk EXCEPT !.exc = Some(e)], ErrorResult(tk.claim, e))

\* except Exception as e: score = 50.0; verdict = "neutral"; explanation = ...
AiFailed(tk, e) ==
    [tk EXCEPT !.score = 50, !.verdict = "neutral",
               !.explanation = <<"Error in AI analysis: ">> \o e,
               !.ai_failed = TRUE,
               !.primary = Some([score |-> 50, verdict |-> "neutral",
                                 explanation |-> <<"Error in AI analysis: ">> \o e])]

\* score = float(ai_result.get("score", 50)); verdict = ...; explanation = ...
AiParsed(tk, ai_result) ==
    [tk EXCEPT !.score = ai_result.score, !.verdict = ai_result.verdict,
               !.explanation = ai_result.explanation,
               !.primary = Some(ai_result)]

FloatOfNoneError ==
    <<"Error in GPT secondary check: ",
      "float() argument must be a string or a real number, not 'NoneType'">>

AfterSecondaryDefault50(tk, gpt_res) ==
    [tk EXCEPT !.gpt_score = IF gpt_res.gpt_score = None THEN Some(50)
                             ELSE gpt_res.gpt_score,
               !.gpt_explanation = gpt_res.gpt_explanation,
               !.gpt_res = Some(gpt_res), !.pc = "reconciling"]
\* gpt_score = float(gpt_res.get("gpt_score", 50)); gpt_explanation = ...
\* float(None) raises TypeError, which the step's except clause catches
AfterSecondary(tk, gpt_res) ==
    IF gpt_res.gpt_score = None
    THEN [tk EXCEPT !.gpt_score = None, !.gpt_explanation = FloatOfNoneError,
                    !.gpt_res = Some(gpt_res), !.pc = "reconciling"]
    ELSE [tk EXCEPT !.gpt_score = gpt_res.gpt_score,
                    !.gpt_explanation = gpt_res.gpt_explanation,
                    !.gpt_res = Some(gpt_res), !.pc = "reconciling"]

\* a call of the secondary judge made with the explanation still unset
BeginSecondaryUnsetExplanation(tk) ==
    LET t1 == [tk EXCEPT !.stages = Append(@, "SecondaryJudging"),
                         !.ncalls.secondary = @ + 1,
                         !.gpt_asked = Some([claim |-> tk.claim, explanation |-> <<>>])]
    IN  IF OPENAI_API_KEY
        THEN [t1 EXCEPT !.pc = "secondary", !.ncalls.net = @ \cup {"secondary"}]
        ELSE AfterSecondary(t1, GptNotConfigured)

\* gpt_res = await get_gpt_score(claim, explanation): without the credential
\* it returns at once, with it the coroutine awaits the API; gpt_asked keeps
\* the arguments of the call
BeginSecondary(tk) ==
    LET t1 == [tk EXCEPT !.stages = Append(@, "SecondaryJudging"),
                         !.ncalls.secondary = @ + 1,
                         !.gpt_asked = Some([claim |-> tk.claim,
                                             explanation |-> tk.explanation])]
    IN  IF OPENAI_API_KEY
        THEN [t1 EXCEPT !.pc = "secondary", !.ncalls.net = @ \cup {"secondary"}]
        ELSE AfterSecondary(t1, GptNotConfigured)

BeginPrimaryStopsOnFailure(tk) ==
    LET t1 == [tk EXCEPT !.stages = Append(@, "PrimaryJudging"),
                         !.ncalls.primary = @ + 1]
    IN  IF gemini_model
        THEN [t1 EXCEPT !.pc = "primary", !.ncalls.net = @ \cup {"primary"},
                        !.prompt = Some(JudgePrompt(tk.claim, tk.evidence))]
        ELSE [AiFailed(t1, <<"Gemini model not available">>) EXCEPT !.pc = "reconciling"]
\* ai_result = await self._verify_with_llm(claim, evidence): without a model
\* it raises at once, with it the coroutine awaits the thread of the call
BeginPrimary(tk) ==
    LET t1 == [tk EXCEPT !.stages = Append(@, "PrimaryJudging"),
                         !.ncalls.primary = @ + 1]
    IN  IF gemini_model
        THEN [t1 EXCEPT !.pc = "primary", !.ncalls.net = @ \cup {"primary"},
                        !.prompt = Some(JudgePrompt(tk.claim, tk.evidence))]
        ELSE BeginSecondary(AiFailed(t1, <<"Gemini model not available">>))

\* evidence = await self._search_for_evidence(claim): without the credential
\* it returns [] at once, with it the coroutine awaits the provider
BeginGathering(tk) ==
    LET t1 == [tk EXCEPT !.stages = Append(@, "Gathering"),
                         !.ncalls.search = @ + 1]
    IN  IF SERPER_API_KEY
        THEN [t1 EXCEPT !.pc = "gathering", !.ncalls.net = @ \cup {"search"}]
        ELSE BeginPrimary([t1 EXCEPT !.evidence = <<>>])

AssembleSecondaryWins(tk) ==
    FinalResult(tk.claim, IF tk.gpt_score = None THEN tk.score ELSE Get(tk.gpt_score),
                tk.verdict, tk.explanation, tk.evidence,
                tk.gpt_score, tk.gpt_explanation)
\* final_result = {...}
Assemble(tk) ==
    FinalResult(tk.claim, tk.score, tk.verdict, tk.explanation, tk.evidence,
                tk.gpt_score, tk.gpt_explanation)

\* an end of verify_claim whose outer except clause writes the error result
\* it returns to the cache
CompleteCachesErrorResult(t, tk) ==
    LET final == Assemble(tk)
        t1 == [tk EXCEPT !.final_result = Some(final),
                         !.stages = Append(@, "Reconciling")]
        t2 == [t1 EXCEPT !.stages = Append(@, "Caching"), !.ncalls.cache_set = @ + 1]
    IN  IF REDIS_AVAILABLE
        THEN \E ok \in BOOLEAN :
               IF ok
               THEN /\ redis' = redis_setex(redis, cache_key(tk.claim, tk.context),
                                            CacheTtl, json_dumps(final), now)
                    /\ task' = [task EXCEPT ![t] =
                                  Returned([t2 EXCEPT !.stored = "ok",
                                                      !.written = Some(now)],
                                           final)]
               ELSE /\ redis' = redis_setex(redis, cache_key(tk.claim, tk.context),
                                            CacheTtl,
                                            json_dumps(ErrorResult(tk.claim, RedisError)),
                                            now)
                    /\ task' = [task EXCEPT ![t] =
                                  TopLevelCatch([t2 EXCEPT !.stored = "failed"],
                                                RedisError)]
        ELSE /\ redis' = redis
             /\ task' = [task EXCEPT ![t] = Returned(t1, final)]

\* The end of verify_claim: assemble final_result, write it to the cache
\* (the write may raise, and the outer try catches that) and return it.
Complete(t, tk) ==
    LET final == Assemble(tk)
        t1 == [tk EXCEPT !.final_result = Some(final),
                         !.stages = Append(@, "Reconciling")]
        t2 == [t1 EXCEPT !.stages = Append(@, "Caching"), !.ncalls.cache_set = @ + 1]
    IN  IF REDIS_AVAILABLE
        THEN \E ok \in BOOLEAN :
               IF ok
               THEN /\ redis' = redis_setex(redis, cache_key(tk.claim, tk.context),
                                            CacheTtl, json_dumps(final), now)
                    /\ task' = [task EXCEPT ![t] =
                                  Returned([t2 EXCEPT !.stored = "ok",
                                                      !.written = Some(now)],
                                           final)]
               ELSE /\ redis' = redis
                    /\ task' = [task EXCEPT ![t] =
                                  TopLevelCatch([t2 EXCEPT !.stored = "failed"],
                                                RedisError)]
        ELSE /\ redis' = redis
             /\ task' = [task EXCEPT ![t] = Returned(t1, final)]

\* Run the coroutine from frame tk to its next await, or to its return.
Advance(t, tk) ==
    IF tk.pc = "reconciling"
    THEN Complete(t, tk)
    ELSE /\ task' = [task EXCEPT ![t] = tk]
         /\ redis' = redis

(***************************************************************************)
(* The actions                                                             *)
(***************************************************************************)
\* the number of requests that have arrived
RECURSIVE SumOver(_, _)
SumOver(f, S) ==
    IF S = {} THEN 0
    ELSE LET x == CHOOSE x \in S : TRUE IN f[x] + SumOver(f, S \ {x})

Arrived ==
    SumOver([cw \in Clients \X Windows |-> http.arrived[cw[1]][cw[2]]], Clients \X Windows)

Init ==
    /\ REDIS_AVAILABLE \in BOOLEAN
    /\ SERPER_API_KEY \in BOOLEAN
    /\ OPENAI_API_KEY \in BOOLEAN
    /\ gemini_model \in BOOLEAN
    /\ redis = {}
    /\ now = 0
    /\ task = [t \in Tasks |-> IdleFrame]
    /\ heard = [search |-> None, secondary |-> None]
    /\ http = [ clock |-> 0, rate_limit_store |-> <<>>, rate_keys |-> <<>>,
                arrived |-> [c \in Clients |-> [w \in Windows |-> 0]],
                forwarded |-> [c \in Clients |-> [w \in Windows |-> 0]],
                last |-> None, verified |-> None,
                response |-> None, db |-> <<>>, claims_list |-> None ]

\* verify_claim(claim, context) is called and runs to its first await:
\* validation, then the cache lookup (the read may raise, and the outer try
\* catches that).
VerifyClaim(t, claim, context) ==
    /\ task[t].pc = "idle"
    /\ \A u \in Tasks : u < t => task[u].pc # "idle"
    /\ LET tk == Frame(claim, context, {u \in Tasks : task[u].pc = "done"})
           t1 == [tk EXCEPT !.stages = Append(@, "CacheLookup")]
           t2 == [t1 EXCEPT !.ncalls.cache_get = @ + 1]
       IN  IF TooShort(claim)
           THEN /\ task' = [task EXCEPT ![t] = Returned(tk, PlaceholderResult(claim))]
                /\ redis' = redis
           ELSE IF REDIS_AVAILABLE
           THEN \E ok \in BOOLEAN :
                  IF ~ok
                  THEN /\ task' = [task EXCEPT ![t] =
                                     TopLevelCatch([t2 EXCEPT !.lookup = "failed"],
                                                   RedisError)]
                       /\ redis' = redis
                  ELSE LET cached_result ==
                               redis_get(redis, cache_key(claim, context), now)
                       IN  IF cached_result # None
                           THEN /\ task' = [task EXCEPT ![t] =
                                      Returned([t2 EXCEPT !.lookup = "hit"],
                                               json_loads(Get(cached_result)))]
                                /\ redis' = redis
                           ELSE Advance(t, BeginGathering([t2 EXCEPT !.lookup = "miss"]))
           ELSE Advance(t, BeginGathering(t1))

\* A task calls verify_claim(claim, context).
Call(t, claim, context) ==
    /\ VerifyClaim(t, claim, context)
    /\ UNCHANGED <<config, now, heard, http>>

\* The search provider answers (or the request fails) and the coroutine
\* runs on to its next await.
SearchAnswers(t, reply) ==
    /\ task[t].pc = "gathering"
    /\ Advance(t, BeginPrimary([task[t] EXCEPT !.evidence = EvidenceOf(reply)]))

SearchReturns(t, reply) ==
    /\ SearchAnswers(t, reply)
    /\ UNCHANGED <<config, now, http>>

\* The primary judge answers (or the call raises) and the coroutine runs on.
GeminiAnswers(t, reply) ==
    /\ task[t].pc = "primary"
    /\ LET tk == [task[t] EXCEPT !.ai_reply = Some(reply)]
       IN  Advance(t, BeginSecondary(
               IF reply.kind = "raise"
               THEN AiFailed(tk, reply.error)
               ELSE AiParsed(tk, ParseResponse(reply.lines))))

GeminiReturns(t, reply) ==
    /\ GeminiAnswers(t, reply)
    /\ UNCHANGED <<config, now, heard, http>>

\* The secondary judge answers (or the call raises) and the coroutine runs
\* to its return.
OpenAIReturns(t, reply) ==
    /\ task[t].pc = "secondary"
    /\ UNCHANGED <<config, now, http>>
    /\ Advance(t, AfterSecondary(task[t], GptResultOf(reply)))

\* A full time-to-live passes; the store drops the entries whose time is over.
\* (The pipeline sees the clock only through its entries: the clock is at 0
\* until there is one.)
Tick ==
    /\ now < MaxTicks * CacheTtl
    /\ redis # {}
    /\ now' = now + CacheTtl
    /\ redis' = redis_expire(redis, now')
    /\ UNCHANGED <<config, task, heard, http>>

\* A request of a client arrives.  RateLimitMiddleware.dispatch counts it and
\* raises, or calls the route; FastAPI resolves the user dependency of the
\* route; the route hands its claim to verify_claim, which runs to its first
\* await.  (security.py builds its REDIS_AVAILABLE as fact_checker.py does,
\* from the same REDIS_URL.)  The record keeps, for the request, its number
\* among the requests of its client in its window and what the limiter did,
\* and for the request that verifies, its route, its token and its user.
\* When the pipeline returns at once, verify_claim_stub runs to its return
\* in the same step; an empty claim is answered with the status 400.
HttpRequest(client_ip, endpoint, token, text) ==
    /\ Arrived < MaxRequests
    /\ UNCHANGED <<config, now, heard>>
    /\ \E answers, committed \in BOOLEAN :
          /\ ~REDIS_AVAILABLE => answers
          /\ LET w == http.clock \div Window
                 limited ==
                     IF ~REDIS_AVAILABLE
                     THEN MemoryLimit(http.rate_limit_store, client_ip, http.clock)
                     ELSE IF answers
                     THEN RedisLimit(http.rate_keys, client_ip, http.clock)
                     ELSE [store |-> http.rate_keys, outcome |-> "RedisError"]
                 passed == limited.outcome = "pass"
                 current_user == IF HasUserDependency(endpoint)
                                 THEN get_current_user(token) ELSE None
                 claims == ClaimsOf(endpoint, text)
                 verifies == passed /\ claims # <<>>
             IN  /\ IF verifies
                    THEN VerifyClaim(Caller, Some(claims[1]), None)
                    ELSE UNCHANGED <<task, redis>>
                 /\ http' = StubFinish(
                      [http EXCEPT
                         !.response = IF passed /\ endpoint = "/api/verify_claim"
                                         /\ claims = <<>>
                                      THEN Some([status |-> 400]) ELSE @,
                         !.rate_limit_store = IF REDIS_AVAILABLE THEN @ ELSE limited.store,
                         !.rate_keys = IF REDIS_AVAILABLE THEN limited.store ELSE @,
                         !.arrived[client_ip][w] = @ + 1,
                         !.forwarded[client_ip][w] = IF passed THEN @ + 1 ELSE @,
                         !.last = Some([client |-> client_ip, window |-> w,
                                        number |-> http.arrived[client_ip][w] + 1,
                                        outcome |-> limited.outcome]),
                         !.verified = IF verifies
                                      THEN Some([endpoint |-> endpoint, token |-> token,
                                                 current_user |-> current_user])
                                      ELSE @],
                      IF verifies THEN task'[Caller] ELSE IdleFrame, committed)

\* The search provider answers the call made for a request, and the
\* handler runs on with the coroutine.
HttpSearchReturns(reply) ==
    /\ SearchAnswers(Caller, reply)
    /\ UNCHANGED <<config, now, heard>>
    /\ \E committed \in BOOLEAN : http' = StubFinish(http, task'[Caller], committed)

\* The primary judge answers the call made for a request, and the handler
\* runs on with the coroutine: when verify_claim returns, verify_claim_stub
\* runs to its own return.
HttpGeminiReturns(reply) ==
    /\ GeminiAnswers(Caller, reply)
    /\ UNCHANGED <<config, now, heard>>
    /\ \E committed \in BOOLEAN : http' = StubFinish(http, task'[Caller], committed)

\* GET /api/claims (the route is counted by the rate limiter like any other;
\* the count is left to HttpRequest)
GetClaims ==
    /\ http.db # <<>>
    /\ http.claims_list = None
    /\ http' = [http EXCEPT !.claims_list = Some(get_claims(http.db))]
    /\ UNCHANGED <<config, redis, now, task, heard>>

\* time.time() advances
HttpTick ==
    /\ http.clock < MaxClockTicks * ClockStep
    /\ http' = [http EXCEPT !.clock = @ + ClockStep]
    /\ UNCHANGED <<config, redis, now, task, heard>>

Next ==
    \/ \E t \in Tasks, request \in RequestInputs :
          Call(t, request[1], request[2])
    \/ \E t \in Tasks, reply \in SearchReplies :
          SearchReturns(t, reply) /\ UNCHANGED heard
    \/ \E t \in Tasks, reply \in GeminiReplies : GeminiReturns(t, reply)
    \/ \E t \in Tasks, reply \in OpenAIReplies :
          OpenAIReturns(t, reply) /\ UNCHANGED heard
    \/ Tick

Spec == Init /\ [][Next]_vars

(***************************************************************************)
(* The one-call specification: one call of verify_claim, of a valid claim, *)
(* whose collaborators answer in every way; what the search provider and   *)
(* the secondary judge answered is kept in heard.                          *)
(***************************************************************************)
NextOneCall ==
    \/ Call(Caller, Some(<<"a", "b", "c">>), None)
    \/ \E reply \in AllSearchReplies \cup RankedSearchReplies :
          /\ SearchReturns(Caller, reply)
          /\ heard' = [heard EXCEPT !.search = Some(reply)]
    \/ \E reply \in GeminiReplies : GeminiReturns(Caller, reply)
    \/ \E reply \in AllOpenAIReplies :
          /\ OpenAIReturns(Caller, reply)
          /\ heard' = [heard EXCEPT !.secondary = Some(reply)]

SpecOneCall == Init /\ [][NextOneCall]_vars

(***************************************************************************)
(* One call judged by the primary judge alone, which answers with every    *)
(* text: the search and the secondary judge have no credential             *)
(***************************************************************************)
InitJudge == Init /\ ~SERPER_API_KEY /\ ~OPENAI_API_KEY

NextJudge ==
    \/ Call(Caller, Some(<<"a", "b", "c">>), None)
    \/ GeminiReturns(Caller, GeminiRaises)
    \/ /\ task[Caller].pc = "primary"
       /\ \E k \in 1..MaxLines : \E lines \in GeminiTextsOf(k) :
             GeminiReturns(Caller, GeminiText(lines))

SpecJudge == InitJudge /\ [][NextJudge]_vars

(***************************************************************************)
(* The HTTP layer in front of one verification: the requests of one client *)
(* to the routes, with every token; the search and the secondary judge     *)
(* have no credential                                                      *)
(***************************************************************************)
InitHttp == Init /\ ~SERPER_API_KEY /\ ~OPENAI_API_KEY

NextHttp ==
    \/ \E endpoint \in Endpoints, token \in Tokens, text \in Texts :
          HttpRequest("10.0.0.1", endpoint, token, text)
    \/ \E reply \in GeminiReplies : HttpGeminiReturns(reply)

SpecHttp == InitHttp /\ [][NextHttp]_vars

(***************************************************************************)
(* POST /api/verify_claim of one client, answered by the pipeline with     *)
(* every score, and GET /api/claims; the secondary judge has no credential *)
(***************************************************************************)
InitStub == Init /\ ~OPENAI_API_KEY

NextStub ==
    \/ \E text \in StubTexts : HttpRequest("10.0.0.1", "/api/verify_claim", None, text)
    \/ \E reply \in FairSearchReplies : HttpSearchReturns(reply)
    \/ \E reply \in ScoreReplies : HttpGeminiReturns(reply)
    \/ GetClaims

SpecStub == InitStub /\ [][NextStub]_vars

(***************************************************************************)
(* The rate limiter: the requests of the clients, over the windows, to     *)
(* routes that verify nothing (the middleware does not look at the route)  *)
(***************************************************************************)
InitLimit == Init /\ ~SERPER_API_KEY /\ ~OPENAI_API_KEY /\ ~gemini_model

NextLimit ==
    \/ \E client_ip \in Clients, endpoint \in {"/health", "/api/verify_claim"} :
          HttpRequest(client_ip, endpoint, None, <<>>)
    \/ HttpTick

SpecLimit == InitLimit /\ [][NextLimit]_vars

(***************************************************************************)
(* The calls under fairness: a call that awaits a collaborator is answered *)
(* in the end (the collaborator returns, fails or times out).  The reads   *)
(* and writes of the store are synchronous: they end within the step that  *)
(* makes them.                                                             *)
(***************************************************************************)
FairRequests == { <<Some(<<"a", "b">>), None>>, <<Some(<<"a", "b", "c">>), None>> }

NextFair ==
    \/ \E t \in Tasks, request \in FairRequests :
          Call(t, request[1], request[2])
    \/ \E t \in Tasks, reply \in FairSearchReplies :
          SearchReturns(t, reply) /\ UNCHANGED heard
    \/ \E t \in Tasks, reply \in GeminiReplies : GeminiReturns(t, reply)
    \/ \E t \in Tasks, reply \in OpenAIReplies :
          OpenAIReturns(t, reply) /\ UNCHANGED heard
    \/ Tick

Answered(t) ==
    /\ WF_vars(\E reply \in FairSearchReplies :
                  SearchReturns(t, reply) /\ UNCHANGED heard)
    /\ WF_vars(\E reply \in GeminiReplies : GeminiReturns(t, reply))
    /\ WF_vars(\E reply \in OpenAIReplies : OpenAIReturns(t, reply) /\ UNCHANGED heard)

SpecFair == Init /\ [][NextFair]_vars /\ \A t \in Tasks : Answered(t)

(***************************************************************************)
(* The properties                                                          *)
(***************************************************************************)
Done(t) == task[t].pc = "done"
Res(t) == Get(task[t].result)
Final(t) == Get(task[t].final_result)
Primary(t) == Get(task[t].primary)

\* the text holds the part, as consecutive tokens
Contains(text, part) ==
    \E i \in 1..(Len(text) - Len(part) + 1) : SubSeq(text, i, i + Len(part) - 1) = part

\* a claim that is verified: not None and of trimmed length 3 or more
ValidClaim(claim) == claim # None /\ Len(Strip(Get(claim))) >= 3

\* q made the same call as p, after p had returned, with no time-to-live
\* over since
InSequence(p, q) ==
    /\ Done(q)
    /\ p \in task[q].pred
    /\ task[p].claim = task[q].claim
    /\ task[p].context = task[q].context
    /\ ValidClaim(task[q].claim)
    /\ now = 0

\* the second call returns what the first returned, the two calls together
\* invoked each collaborator once, and a hit used no network and no write
Idempotent(p, q) ==
    /\ DOMAIN Res(q) = DOMAIN Res(p)
    /\ Res(q) = Res(p)
    /\ task[p].ncalls.search + task[q].ncalls.search = 1
    /\ task[p].ncalls.primary + task[q].ncalls.primary = 1
    /\ task[p].ncalls.secondary + task[q].ncalls.secondary = 1
    /\ task[q].lookup = "hit" => task[q].ncalls.net = {} /\ task[q].ncalls.cache_set = 0

C2_NoExceptionEscapes ==
    \A t \in Tasks :
        /\ task[t].pc # "raised"
        /\ task[t].exc # None =>
              /\ Done(t)
              /\ Res(t).verdict = "error"
              /\ Res(t).score = 50
              /\ Contains(Res(t).explanation, Get(task[t].exc))
              /\ Res(t).sources = <<>>
              /\ Res(t).evidence = <<>>

C2_Witness ==
    \E t \in Tasks :
        /\ Done(t) /\ task[t].exc # None /\ task[t].stored = "failed"
        /\ task[t].ai_failed /\ task[t].gpt_res # None

\* C3: a call whose claim is empty or of trimmed length below 3 returns the
\* placeholder (score 50.0, verdict "neutral", no sources, no evidence) and
\* uses no collaborator: no cache read or write, no search, no judge.
C3_InputRejection ==
    \A t \in Tasks :
        task[t].pc # "idle" /\ ~ValidClaim(task[t].claim) =>
            /\ Done(t)
            /\ Res(t).score = 50
            /\ Res(t).verdict = "neutral"
            /\ Res(t).sources = <<>>
            /\ Res(t).evidence = <<>>
            /\ task[t].ncalls = NoCalls
            /\ task[t].lookup = "none" /\ task[t].stored = "none"

C3_Witness ==
    \E t \in Tasks :
        /\ Done(t) /\ task[t].claim = Some(<<" ", "a", "b", " ">>)
        /\ \E u \in Tasks : task[u].stored = "ok"

\* the reason of the primary step's failure
FailureReason(t) ==
    IF task[t].ai_reply = None THEN <<"Gemini model not available">>
    ELSE Get(task[t].ai_reply).error

\* C4: when the primary judge is not configured (and then no judge call is
\* made) or its call raises, the returned result has score 50.0, verdict
\* "neutral" (not "error") and an explanation holding the failure reason.
C4_PrimaryFailureDefault ==
    \A t \in Tasks :
        Done(t) /\ task[t].ai_failed =>
            /\ ~gemini_model => "primary" \notin task[t].ncalls.net
            /\ Res(t).score = 50
            /\ Res(t).verdict = "neutral"
            /\ Contains(Res(t).explanation, FailureReason(t))

RECURSIVE LinksOf(_)
LinksOf(evidence) ==
    IF evidence = <<>> THEN <<>> ELSE <<Head(evidence).link>> \o LinksOf(Tail(evidence))

\* C5: when the search returned a non-empty list and the primary judge then
\* failed, the returned result holds that evidence and its links as sources.
C5_FallbackComposition ==
    \A t \in Tasks :
        Done(t) /\ task[t].ai_failed /\ task[t].evidence # <<>> =>
            /\ Res(t).evidence = task[t].evidence
            /\ Res(t).sources # <<>>
            /\ Res(t).sources = LinksOf(task[t].evidence)

\* the scores a judge's text reports on its SCORE lines
ReportedScores(lines) ==
    {Get(ParseFloat(lines[i].value)) :
        i \in {i \in 1..Len(lines) : /\ lines[i].label = "SCORE:"
                                     /\ ParseFloat(lines[i].value) # None}}

\* the tasks whose primary judge has answered with a text
Judged(t) ==
    /\ task[t].ai_reply # None
    /\ Get(task[t].ai_reply).kind = "text"
    /\ task[t].primary # None

\* C6: the score of every returned result lies in [0, 100]; a judge's text
\* that reports a score above 100 gives the score 100, one that reports a
\* score below 0 gives 0, in the primary outcome and in the assembled result.
C6_ScoreRange ==
    \A t \in Tasks :
        /\ Done(t) => Res(t).score >= 0 /\ Res(t).score <= 100
        /\ Judged(t) =>
             LET reported == ReportedScores(Get(task[t].ai_reply).lines)
             IN  /\ reported # {} /\ (\A v \in reported : v > 100) =>
                       /\ Primary(t).score = 100
                       /\ task[t].final_result # None => Final(t).score = 100
                 /\ reported # {} /\ (\A v \in reported : v < 0) =>
                       /\ Primary(t).score = 0
                       /\ task[t].final_result # None => Final(t).score = 0

C6_Witness ==
    \E t, u \in Tasks :
        /\ Done(t) /\ Judged(t) /\ Done(u) /\ Judged(u)
        /\ 150 \in ReportedScores(Get(task[t].ai_reply).lines)
        /\ Res(t).score = 100
        /\ -10 \in ReportedScores(Get(task[u].ai_reply).lines)
        /\ Res(u).score = 0

\* the tokens a judge's text gives on its VERDICT lines
VerdictTokens(lines) ==
    {lines[i].value : i \in {i \in 1..Len(lines) : lines[i].label = "VERDICT:"}}

Verdicts == {"true", "false", "partial", "neutral", "error"}

\* C7: the verdict of every returned result is one of true, false, partial,
\* neutral, error; a judge's text whose verdict token, lower-cased, is none
\* of true, false, partial gives the verdict "neutral", and the token is not
\* the verdict of the result.
C7_VerdictSanitized ==
    \A t \in Tasks :
        /\ Done(t) => Res(t).verdict \in Verdicts
        /\ Judged(t) =>
             LET tokens == VerdictTokens(Get(task[t].ai_reply).lines)
             IN  tokens # {} /\ (\A v \in tokens : Lower(v) \notin {"true", "false", "partial"})
                    => /\ Primary(t).verdict = "neutral"
                       /\ task[t].final_result # None => Final(t).verdict = "neutral"
                       /\ Done(t) => Res(t).verdict \notin tokens

C7_Witness ==
    \E t \in Tasks :
        /\ Done(t) /\ Judged(t)
        /\ "maybe" \in VerdictTokens(Get(task[t].ai_reply).lines)
        /\ Res(t).verdict = "neutral"

\* C8: without the secondary judge's credential no call to it is made, and
\* the assembled result has no secondary score and, as secondary explanation,
\* "OpenAI API key not set"; its score and verdict are the primary outcome's.
C8_SecondaryNotConfigured ==
    \A t \in Tasks :
        ~OPENAI_API_KEY /\ task[t].final_result # None =>
            /\ "secondary" \notin task[t].ncalls.net
            /\ Final(t).gpt_score = None
            /\ Final(t).gpt_explanation = <<"OpenAI API key not set">>
            /\ Final(t).score = Primary(t).score
            /\ Final(t).verdict = Primary(t).verdict

\* C9: the score, verdict and explanation of every assembled result are
\* those of the primary outcome, whatever the secondary judge returned.
C9_PrimaryAuthoritative ==
    \A t \in Tasks :
        task[t].final_result # None =>
            /\ Final(t).score = Primary(t).score
            /\ Final(t).verdict = Primary(t).verdict
            /\ Final(t).explanation = Primary(t).explanation

C9_Witness ==
    \E t \in Tasks :
        /\ Done(t) /\ task[t].final_result # None
        /\ Final(t).gpt_score # None
        /\ Get(Final(t).gpt_score) # Final(t).score
        /\ Res(t).score = Primary(t).score

\* C10: when the write of the assembled result to the cache fails, the call
\* still returns the assembled result, and not an error result.
C10_CacheWriteFailureSwallowed ==
    \A t \in Tasks :
        Done(t) /\ task[t].stored = "failed" =>
            /\ Res(t).verdict # "error"
            /\ Res(t).verdict = Final(t).verdict
            /\ Res(t).score = Final(t).score
            /\ Res(t).explanation = Final(t).explanation
            /\ Res(t).evidence = Final(t).evidence
            /\ Res(t).sources = Final(t).sources

\* C11: when the read of the cache fails, the call goes on as on a miss, to
\* the search, the primary judge and the secondary judge, and its result
\* is not the error result of the outer try.
C11_CacheReadFailureRecovered ==
    \A t \in Tasks :
        Done(t) /\ task[t].lookup = "failed" =>
            /\ Res(t).verdict # "error"
            /\ task[t].ncalls.search = 1
            /\ task[t].ncalls.primary = 1
            /\ task[t].ncalls.secondary = 1

\* the steps of a call that missed the cache, in their order
MissPath ==
    <<"Validating", "CacheLookup", "Gathering", "PrimaryJudging",
      "SecondaryJudging", "Reconciling", "Caching", "Done">>

IsPrefix(s, u) == Len(s) <= Len(u) /\ SubSeq(u, 1, Len(s)) = s

\* C12: a call that missed the cache runs the steps Gathering,
\* PrimaryJudging, SecondaryJudging, Reconciling, Caching, Done in this
\* order and skips none, whatever step failed: when it is done it has
\* invoked the search, the primary judge and the secondary judge once each
\* and has attempted the cache write.
C12_MissPathOrdering ==
    \A t \in Tasks :
        task[t].lookup = "miss" =>
            /\ IsPrefix(task[t].stages, MissPath)
            /\ Done(t) =>
                  /\ task[t].stages = MissPath
                  /\ task[t].ncalls.search = 1
                  /\ task[t].ncalls.primary = 1
                  /\ task[t].ncalls.secondary = 1
                  /\ task[t].ncalls.cache_set = 1
                  /\ task[t].stored # "none"

\* a call whose search gave nothing, whose primary judge failed and whose
\* secondary judge failed, and which then attempted the cache write
C12_Witness ==
    \E t \in Tasks :
        /\ Done(t) /\ task[t].lookup = "miss"
        /\ SERPER_API_KEY /\ task[t].evidence = <<>>
        /\ task[t].ai_failed
        /\ OPENAI_API_KEY /\ Get(task[t].gpt_res).gpt_score = None
        /\ task[t].stored = "ok"

\* the fields of a result
ResultFields ==
    {"text", "score", "verdict", "explanation", "evidence", "sources",
     "gpt_score", "gpt_explanation"}

\* C13: every result verify_claim returns, on every path, has the fields
\* text, score, verdict, explanation, evidence, sources, secondary score and
\* secondary explanation.
C13_WellFormedShape ==
    \A t \in Tasks : Done(t) => ResultFields \subseteq DOMAIN Res(t)

\* the one call, and what the search provider answered to it
OneCall == task[Caller]
SearchReply == Get(heard.search)

\* the reply is a failure of the search: a transport error or timeout, a
\* non-200 status, a body that is no JSON, an item that is no object
SearchFailed(reply) ==
    \/ reply.kind = "error"
    \/ reply.status # 200
    \/ "malformed" \in DOMAIN reply
    \/ \E i \in 1..Len(reply.organic) : "malformed" \in DOMAIN reply.organic[i]

\* C14: _search_for_evidence never raises: without the search credential,
\* and on a transport error or timeout, a non-200 status, a malformed body
\* or a malformed item, it returns the empty list, and verify_claim goes on
\* to the primary judge with that empty evidence.
C14_GathererNeverRaises ==
    /\ OneCall.pc # "raised"
    /\ \/ ~SERPER_API_KEY /\ OneCall.ncalls.search = 1
       \/ heard.search # None /\ SearchFailed(SearchReply)
       => /\ OneCall.evidence = <<>>
          /\ OneCall.ncalls.primary = 1
          /\ IsPrefix(<<"Validating", "CacheLookup", "Gathering", "PrimaryJudging">>,
                      OneCall.stages)
          /\ OneCall.exc # None => OneCall.stored = "failed"

\* the response holds a well-formed item with a link and then a malformed one
C14_Witness ==
    /\ Done(Caller) /\ heard.search # None
    /\ SearchReply.kind = "status" /\ SearchReply.status = 200
    /\ IsJson(SearchReply) /\ Len(SearchReply.organic) = 2
    /\ IsObject(SearchReply.organic[1]) /\ SearchReply.organic[1].link = "u1"
    /\ ~IsObject(SearchReply.organic[2])
    /\ OneCall.evidence = <<>>
    /\ OneCall.primary # None

\* the reply is a response whose items are all well formed
SearchAnswered(reply) == reply.kind = "status" /\ ~SearchFailed(reply)

\* the places of the items that are the first with their (non-empty) link
FirstOccurrences(organic) ==
    {i \in 1..Len(organic) :
        /\ organic[i].link # ""
        /\ \A j \in 1..(i - 1) : organic[j].link # organic[i].link}

\* the place in the response of the k-th item kept
KeptPlace(organic, k) ==
    CHOOSE i \in FirstOccurrences(organic) :
        Cardinality({j \in FirstOccurrences(organic) : j < i}) = k - 1

\* C15: the evidence of one gathering call holds no two items with the same
\* link; it holds, for each distinct non-empty link of the response, the
\* first item with that link, and these in the order of the response.
C15_EvidenceDeduplicated ==
    heard.search # None /\ SearchAnswered(SearchReply) =>
        LET organic == SearchReply.organic
            evidence == OneCall.evidence
        IN  /\ \A a, b \in 1..Len(evidence) :
                   a # b => evidence[a].link # evidence[b].link
            /\ Len(evidence) = Cardinality(FirstOccurrences(organic))
            /\ \A k \in 1..Len(evidence) :
                   /\ evidence[k].link = organic[KeptPlace(organic, k)].link
                   /\ evidence[k].title = organic[KeptPlace(organic, k)].title
                   /\ evidence[k].snippet = organic[KeptPlace(organic, k)].snippet

\* the response <<(t1, u1), (t2, u1), (t1, u2)>>: the second item is dropped
C15_Witness ==
    /\ Done(Caller) /\ heard.search # None
    /\ SearchAnswered(SearchReply)
    /\ LinksOf(SearchReply.organic) = <<"u1", "u1", "u2">>
    /\ SearchReply.organic[1].title = "t1" /\ SearchReply.organic[2].title = "t2"
    /\ LinksOf(OneCall.evidence) = <<"u1", "u2">>
    /\ OneCall.evidence[1].title = "t1"
    /\ Res(Caller).sources = <<"u1", "u2">>

\* what the secondary judge answered to the one call
SecondaryReply == Get(heard.secondary)

\* the numerals int() accepts
Numerals == {"150", "-10", "42", "50"}

\* the content cannot be parsed: it is no JSON, it lacks the score or the
\* explanation, or its score is no number
ParseFails(reply) ==
    /\ reply.kind = "content"
    /\ \/ ~reply.json
       \/ "score" \notin reply.fields
       \/ "explanation" \notin reply.fields
       \/ reply.score[1] = "null"
       \/ reply.score[1] = "string" /\ reply.score[2] \notin Numerals

\* the score the content of the secondary judge gives
ReturnedScore(reply) ==
    IF reply.score[1] = "number" THEN reply.score[2]
    ELSE CHOOSE n \in -10..150 : ParseFloat(reply.score[2]) = Some(n)

\* the secondary judge gave no opinion: it is not configured, its call
\* failed, or its content could not be parsed
NoSecondOpinion ==
    \/ ~OPENAI_API_KEY
    \/ heard.secondary # None /\ SecondaryReply.kind = "raise"
    \/ heard.secondary # None /\ ParseFails(SecondaryReply)

\* C16: in every assembled result the secondary score is absent exactly
\* when the secondary judge is not configured, its call failed or its
\* content could not be parsed; the secondary score is 50 only when the
\* judge returned 50.
C16_AbsentIsNot50 ==
    OneCall.final_result # None =>
        /\ Final(Caller).gpt_score = None <=> NoSecondOpinion
        /\ Final(Caller).gpt_score = Some(50) =>
              /\ OPENAI_API_KEY /\ heard.secondary # None
              /\ ~ParseFails(SecondaryReply)
              /\ ReturnedScore(SecondaryReply) = 50

\* the content is no JSON, after a primary judge that failed (score 50)
C16_Witness ==
    /\ Done(Caller) /\ OneCall.final_result # None
    /\ heard.secondary # None /\ SecondaryReply.kind = "content" /\ ~SecondaryReply.json
    /\ Final(Caller).score = 50
    /\ Final(Caller).gpt_score = None
    /\ Res(Caller).gpt_score = None

\* the detail of the error of a reply of the secondary judge
ErrorDetail(reply) ==
    CASE reply.kind = "raise" -> "api error"
      [] ~reply.json -> "JSONDecodeError"
      [] "score" \notin reply.fields -> "KeyError: score"
      [] reply.score[1] = "null" -> "TypeError"
      [] reply.score[1] = "string" /\ reply.score[2] \notin Numerals -> "ValueError"
      [] OTHER -> "KeyError: explanation"

\* C17: for a content that is malformed, lacks the score or the explanation
\* or has a non-numeric score, and for a call that fails, get_gpt_score
\* returns an outcome without a score whose explanation holds the detail of
\* the error; it raises nothing, and verify_claim goes on to assemble its
\* result.
C17_SecondaryParseFailure ==
    heard.secondary # None
        /\ (SecondaryReply.kind = "raise" \/ ParseFails(SecondaryReply)) =>
            /\ OneCall.gpt_res # None
            /\ Get(OneCall.gpt_res).gpt_score = None
            /\ Contains(Get(OneCall.gpt_res).gpt_explanation,
                        <<ErrorDetail(SecondaryReply)>>)
            /\ OneCall.pc = "done"
            /\ OneCall.final_result # None
            /\ OneCall.exc # None => OneCall.stored = "failed"

\* the content has a score and no explanation
C17_Witness ==
    /\ Done(Caller) /\ heard.secondary # None
    /\ SecondaryReply.kind = "content" /\ SecondaryReply.json
    /\ SecondaryReply.fields = {"score"}
    /\ Get(OneCall.gpt_res).gpt_score = None
    /\ Contains(Get(OneCall.gpt_res).gpt_explanation, <<"KeyError: explanation">>)

\* C18: a secondary score that is present is an integer in [0, 100]; a
\* score of the secondary judge above 100 gives 100, one below 0 gives 0.
C18_SecondaryScoreRange ==
    /\ Done(Caller) /\ "gpt_score" \in DOMAIN Res(Caller)
          /\ Res(Caller).gpt_score # None =>
              Get(Res(Caller).gpt_score) \in 0..100
    /\ OneCall.final_result # None /\ ~NoSecondOpinion =>
          /\ Final(Caller).gpt_score # None
          /\ Get(Final(Caller).gpt_score) \in 0..100
          /\ ReturnedScore(SecondaryReply) > 100 => Get(Final(Caller).gpt_score) = 100
          /\ ReturnedScore(SecondaryReply) < 0 => Get(Final(Caller).gpt_score) = 0
          /\ ReturnedScore(SecondaryReply) \in 0..100 =>
                Get(Final(Caller).gpt_score) = ReturnedScore(SecondaryReply)

\* the secondary judge returned -10
C18_Witness ==
    /\ Done(Caller) /\ heard.secondary # None
    /\ ~ParseFails(SecondaryReply) /\ SecondaryReply.kind = "content"
    /\ ReturnedScore(SecondaryReply) = -10
    /\ OneCall.stored = "ok"
    /\ Res(Caller).gpt_score = Some(0)

\* q made the same call as p, of a valid claim, after p had returned with
\* its result written to the cache
Repeats(p, q) ==
    /\ task[q].pc # "idle"
    /\ p \in task[q].pred
    /\ task[p].claim = task[q].claim
    /\ task[p].context = task[q].context
    /\ ValidClaim(task[q].claim)
    /\ task[p].written # None

\* the time at which the entry a call wrote expires
ExpiryOf(t) == Get(task[t].written) + 86400

\* the call ran the whole pipeline
Recomputed(t) ==
    /\ task[t].ncalls.search = 1
    /\ task[t].ncalls.primary = 1
    /\ task[t].ncalls.secondary = 1

\* C19: a result written by the Caching step is stored under the key of its
\* request until 86400 seconds after the write; the same request made
\* before that time is served from the cache without recomputation; the
\* same request made at or after that time is a miss, runs the whole
\* pipeline and writes a fresh entry.
C19_CacheExpiry ==
    /\ \A t \in Tasks :
          task[t].written # None /\ now < ExpiryOf(t) =>
              \E e \in redis :
                  /\ e.key = cache_key(task[t].claim, task[t].context)
                  /\ e.expires >= ExpiryOf(t)
                  /\ e.expires <= now + 86400
    /\ \A p, q \in Tasks :
          Repeats(p, q) /\ task[q].began < ExpiryOf(p) =>
              /\ task[q].lookup = "hit"
              /\ Res(q) = Res(p)
              /\ task[q].ncalls.search = 0
              /\ task[q].ncalls.primary = 0
              /\ task[q].ncalls.secondary = 0
    /\ \A p, q \in Tasks :
          Repeats(p, q) /\ task[q].began >= ExpiryOf(p) =>
              /\ task[q].lookup = "miss"
              /\ Done(q) => Recomputed(q) /\ task[q].written # None

\* C19, for the calls whose reads and writes of the store succeed
C19_CacheExpiryWhenStoreAnswers ==
    /\ \A t \in Tasks :
          task[t].written # None /\ now < ExpiryOf(t) =>
              \E e \in redis :
                  /\ e.key = cache_key(task[t].claim, task[t].context)
                  /\ e.expires >= ExpiryOf(t)
                  /\ e.expires <= now + 86400
    /\ \A p, q \in Tasks :
          Repeats(p, q) /\ task[q].began < ExpiryOf(p) /\ task[q].lookup # "failed" =>
              /\ task[q].lookup = "hit"
              /\ Res(q) = Res(p)
              /\ task[q].ncalls.search = 0
              /\ task[q].ncalls.primary = 0
              /\ task[q].ncalls.secondary = 0
    /\ \A p, q \in Tasks :
          Repeats(p, q) /\ task[q].began >= ExpiryOf(p) /\ task[q].lookup # "failed" =>
              /\ task[q].lookup = "miss"
              /\ Done(q) /\ task[q].stored # "failed" =>
                    Recomputed(q) /\ task[q].written # None

\* a repeated call after the expiry that recomputed and wrote a fresh entry
C19_Probe ==
    \E p, q \in Tasks :
        /\ Repeats(p, q) /\ task[q].began >= ExpiryOf(p)
        /\ Done(q) /\ task[q].written # None

\* C20: two calls whose claims differ never have the same cache key, and
\* the text of every returned result is the claim of the call it is
\* returned to.
C20_FingerprintSeparation ==
    /\ \A p, q \in Tasks :
          /\ task[p].pc # "idle" /\ task[q].pc # "idle"
          /\ ValidClaim(task[p].claim) /\ ValidClaim(task[q].claim)
          /\ task[p].claim # task[q].claim
          => cache_key(task[p].claim, task[p].context)
                # cache_key(task[q].claim, task[q].context)
    /\ \A t \in Tasks : Done(t) => Res(t).text = task[t].claim

\* C20's second part alone: no call is given another claim's result
C20_TextIsOwnClaim ==
    \A t \in Tasks : Done(t) => Res(t).text = task[t].claim

\* p and q are two calls of valid claims with the same cache key, with the
\* cache enabled, neither of which had returned (and so neither had written)
\* when the other read the cache
Concurrent(p, q) ==
    /\ p # q
    /\ REDIS_AVAILABLE
    /\ task[p].pc # "idle" /\ task[q].pc # "idle"
    /\ ValidClaim(task[p].claim) /\ ValidClaim(task[q].claim)
    /\ cache_key(task[p].claim, task[p].context)
          = cache_key(task[q].claim, task[q].context)
    /\ p \notin task[q].pred /\ q \notin task[p].pred

\* the call returned the result it assembled
OwnResult(t) ==
    /\ task[t].final_result # None
    /\ Res(t) = Final(t)
    /\ ResultFields \subseteq DOMAIN Res(t)

\* the store holds, under the key of the call, the result the call assembled
HoldsResultOf(store, t) ==
    \E e \in store :
        /\ e.key = cache_key(task[t].claim, task[t].context)
        /\ e.value = json_dumps(Final(t))

\* C21: two concurrent calls with the same key that both read the cache
\* before either writes both miss, and both run the search and the two
\* judges; each returns the result it assembled; each write replaces the
\* entry, so that the cache holds the result of the call that wrote last.
C21_NoMutualExclusion ==
    \A p, q \in Tasks :
        Concurrent(p, q) =>
            /\ task[p].lookup = "miss" /\ task[q].lookup = "miss"
            /\ Done(p) /\ Done(q) =>
                  /\ Recomputed(p) /\ Recomputed(q)
                  /\ OwnResult(p) /\ OwnResult(q)
                  /\ now < CacheTtl =>
                        HoldsResultOf(redis, p) \/ HoldsResultOf(redis, q)

\* C21, for the calls whose reads and writes of the store succeed
C21_WhenStoreAnswers ==
    /\ [](\A p, q \in Tasks :
            Concurrent(p, q) /\ task[p].lookup # "failed" /\ task[q].lookup # "failed" =>
                /\ task[p].lookup = "miss" /\ task[q].lookup = "miss"
                /\ Done(p) /\ Done(q) /\ task[p].stored = "ok" /\ task[q].stored = "ok" =>
                      /\ Recomputed(p) /\ Recomputed(q)
                      /\ OwnResult(p) /\ OwnResult(q)
                      /\ now < CacheTtl =>
                            HoldsResultOf(redis, p) \/ HoldsResultOf(redis, q))
    /\ [][\A t \in Tasks :
            ~Done(t) /\ Done(t)' /\ task[t].stored' = "ok" =>
                HoldsResultOf(redis, t)']_vars

\* two concurrent calls both missed, computed different results and wrote
\* them; the entry is the result of the second
C21_ConcurrentMisses ==
    \E p, q \in Tasks :
        /\ Concurrent(p, q) /\ Done(p) /\ Done(q)
        /\ task[p].stored = "ok" /\ task[q].stored = "ok"
        /\ Final(p) # Final(q)
        /\ HoldsResultOf(redis, q) /\ ~HoldsResultOf(redis, p)

\* the search and the two judges answered the two calls alike
SameAnswers(p, q) ==
    /\ task[p].evidence = task[q].evidence
    /\ task[p].ai_failed = task[q].ai_failed
    /\ task[p].ai_reply = task[q].ai_reply
    /\ task[p].primary = task[q].primary
    /\ task[p].gpt_res = task[q].gpt_res

\* both concurrent calls have returned and each has written its result
BothWrote(p, q) ==
    /\ Concurrent(p, q)
    /\ Done(p) /\ Done(q)
    /\ task[p].written # None /\ task[q].written # None

\* what a later call of the request of t reads from the cache
LaterRead(t) ==
    redis_get(redis, cache_key(task[t].claim, task[t].context), now)

\* the entry of the request of t is in the store
EntryKept(t) ==
    \E e \in redis : e.key = cache_key(task[t].claim, task[t].context)

SecondaryOutcome == Get(OneCall.gpt_res)

\* C25: in every result assembled on the miss path the secondary score and
\* the secondary explanation are the score and the explanation the secondary
\* judge returned to the call, an absent score with its "not configured" or
\* parse-failure explanation included.
C25_SecondaryCarriedUnchanged ==
    OneCall.final_result # None /\ OneCall.gpt_res # None =>
        /\ Final(Caller).gpt_score = SecondaryOutcome.gpt_score
        /\ Final(Caller).gpt_explanation = SecondaryOutcome.gpt_explanation

\* C25, for the calls the secondary judge answered with a score
C25_WhenScored ==
    /\ OneCall.final_result # None /\ OneCall.gpt_res # None
    /\ SecondaryOutcome.gpt_score # None
    => /\ Final(Caller).gpt_score = SecondaryOutcome.gpt_score
       /\ Final(Caller).gpt_explanation = SecondaryOutcome.gpt_explanation

\* the secondary judge returned no score and an explanation of why, and the
\* assembled result holds another explanation
C25_ExplanationReplaced ==
    /\ OneCall.final_result # None /\ OneCall.gpt_res # None
    /\ SecondaryOutcome.gpt_score = None
    /\ Final(Caller).gpt_score = None
    /\ Final(Caller).gpt_explanation # SecondaryOutcome.gpt_explanation
    /\ Final(Caller).gpt_explanation = FloatOfNoneError

\* step a is recorded before step b
InOrder(steps, a, b) ==
    \E i, j \in 1..Len(steps) : i < j /\ steps[i] = a /\ steps[j] = b

\* the arguments of the call of the secondary judge
Asked(t) == Get(task[t].gpt_asked)

C27_SourcesFromEvidence ==
    \A t \in Tasks :
        Done(t) =>
            /\ Res(t).sources = LinksOf(Res(t).evidence)
            /\ Len(Res(t).sources) = Len(Res(t).evidence)
            /\ \A i \in 1..Len(Res(t).evidence) : Res(t).evidence[i].link # ""
            /\ Res(t).sources = <<>> <=> Res(t).evidence = <<>>

\* the search answered with results of which one has no link and one repeats
\* a link; the returned result holds two evidence items and their two links
C27_Witness ==
    /\ Done(Caller) /\ heard.search # None /\ SearchAnswered(SearchReply)
    /\ \E i \in 1..Len(SearchReply.organic) : SearchReply.organic[i].link = ""
    /\ Len(SearchReply.organic) > Len(Res(Caller).evidence)
    /\ Len(Res(Caller).evidence) = 2
    /\ Res(Caller).sources = <<Res(Caller).evidence[1].link, Res(Caller).evidence[2].link>>

\* the evidence block of the prompt the primary judge was given
Shown == Get(OneCall.prompt).evidence_text

JudgeText == Get(OneCall.ai_reply).lines

\* the values of the lines of a text that start with the label
ValuesOf(lines, label) ==
    {lines[i].value : i \in {i \in 1..Len(lines) : lines[i].label = label}}

\* the verdicts of the three that the VERDICT lines of a text give
GivenVerdicts(lines) ==
    {Lower(v) : v \in ValuesOf(lines, "VERDICT:")} \cap {"true", "false", "partial"}

\* C29: when no SCORE line of the text of the primary judge holds a number,
\* the score is 50 and the call of the judge does not fail: the verdict is
\* the one its VERDICT lines give ("neutral" when they give none) and the
\* explanation is the value of its EXPLANATION lines; a text with no SCORE
\* line and no VERDICT line gives the score 50 and the verdict "neutral".
C29_ScoreParseFailureLocal ==
    Judged(Caller) =>
        LET scores == ValuesOf(JudgeText, "SCORE:")
            given == GivenVerdicts(JudgeText)
            told == ValuesOf(JudgeText, "EXPLANATION:")
        IN  /\ ~OneCall.ai_failed
            /\ OneCall.final_result # None =>
                  /\ Final(Caller).score = Primary(Caller).score
                  /\ Final(Caller).verdict = Primary(Caller).verdict
                  /\ Final(Caller).explanation = Primary(Caller).explanation
            /\ scores # {} /\ scores \cap Numerals = {} =>
                  /\ Primary(Caller).score = 50
                  /\ given = {} => Primary(Caller).verdict = "neutral"
                  /\ \A v \in given : given = {v} => Primary(Caller).verdict = v
                  /\ \A e \in told : told = {e} /\ e # "" =>
                        Primary(Caller).explanation = <<e>>
            /\ scores = {} /\ ValuesOf(JudgeText, "VERDICT:") = {} =>
                  /\ Primary(Caller).score = 50
                  /\ Primary(Caller).verdict = "neutral"

\* the text held a verdict and an explanation before a SCORE line that is no
\* number; the call returned 50 with that verdict and that explanation
C29_Witness ==
    /\ Done(Caller) /\ Judged(Caller)
    /\ JudgeText = <<Line("VERDICT:", "TRUE"), Line("EXPLANATION:", "why"),
                     Line("SCORE:", "high")>>
    /\ Res(Caller).score = 50
    /\ Res(Caller).verdict = "true"
    /\ Res(Caller).explanation = <<"why">>

\* a text of prose alone gave 50 and "neutral"
C29_WitnessNoLines ==
    /\ Done(Caller) /\ Judged(Caller)
    /\ ValuesOf(JudgeText, "SCORE:") = {} /\ ValuesOf(JudgeText, "VERDICT:") = {}
    /\ Res(Caller).score = 50 /\ Res(Caller).verdict = "neutral"

\* the lines from the i-th on, joined by newlines
RECURSIVE JoinedFrom(_, _)
JoinedFrom(lines, i) ==
    IF i > Len(lines) THEN <<>>
    ELSE LineText(lines[i]) \o (IF i < Len(lines) THEN <<"\n">> ELSE <<>>)
             \o JoinedFrom(lines, i + 1)

\* a text without the white space around it
Trimmed(text) ==
    LET inked == {i \in 1..Len(text) : text[i] \notin {" ", "\n"}}
    IN  IF inked = {} THEN <<>>
        ELSE SubSeq(text, CHOOSE i \in inked : \A j \in inked : i <= j,
                          CHOOSE i \in inked : \A j \in inked : i >= j)

\* the lines after the first two, joined by newlines
AfterFirstTwo(lines) == Trimmed(JoinedFrom(lines, 3))

Placeholder == <<"No explanation provided">>

\* the explanation of a text without a usable EXPLANATION line
FallbackOf(lines) ==
    IF Len(lines) > 2 /\ AfterFirstTwo(lines) # <<>> THEN AfterFirstTwo(lines)
    ELSE Placeholder

\* C30: a text with no EXPLANATION line gives, as the explanation, the lines
\* after the first two joined by newlines when it has more than two lines,
\* and the placeholder "No explanation provided" when that is empty or it
\* has at most two lines; a text with an EXPLANATION line whose value is not
\* empty gives the value of such a line; the explanation is never empty.
C30_ExplanationFallback ==
    Judged(Caller) =>
        LET told == ValuesOf(JudgeText, "EXPLANATION:")
        IN  /\ Primary(Caller).explanation # <<>>
            /\ told = {} => Primary(Caller).explanation = FallbackOf(JudgeText)
            /\ told \ {""} # {} =>
                  \E e \in told \ {""} : Primary(Caller).explanation = <<e>>

\* the places of the EXPLANATION lines of a text
ExplanationPlaces(lines) ==
    {i \in 1..Len(lines) : lines[i].label = "EXPLANATION:"}

\* the value of the last EXPLANATION line of a text ("" without one)
LastExplanation(lines) ==
    IF ExplanationPlaces(lines) = {} THEN ""
    ELSE lines[CHOOSE i \in ExplanationPlaces(lines) :
                   \A j \in ExplanationPlaces(lines) : i >= j].value

\* C30, with the last EXPLANATION line deciding: its value is the
\* explanation when it is not empty, and the text falls back as it does
\* without an EXPLANATION line when it is.
C30_LastExplanationLine ==
    Judged(Caller) =>
        /\ Primary(Caller).explanation # <<>>
        /\ LastExplanation(JudgeText) # "" =>
              Primary(Caller).explanation = <<LastExplanation(JudgeText)>>
        /\ LastExplanation(JudgeText) = "" =>
              Primary(Caller).explanation = FallbackOf(JudgeText)
        /\ OneCall.final_result # None =>
              Final(Caller).explanation = Primary(Caller).explanation

\* the text held an explanation and then an empty EXPLANATION line; the call
\* returned the placeholder
C30_ExplanationLost ==
    /\ Done(Caller) /\ Judged(Caller)
    /\ JudgeText = <<Line("EXPLANATION:", "why"), Line("EXPLANATION:", "")>>
    /\ Res(Caller).explanation = Placeholder

\* a text of four lines without an EXPLANATION line gave its last two lines
C30_FallbackJoins ==
    /\ Done(Caller) /\ Judged(Caller)
    /\ ValuesOf(JudgeText, "EXPLANATION:") = {}
    /\ Len(JudgeText) = 4
    /\ Res(Caller).explanation = <<"prose", "\n", "VERDICT:", "TRUE">>

\* the request for which verify_claim was called
Verified == Get(http.verified)

\* C23: verify_claim is called for a request to POST /analyze, /analyze_url
\* or /api/verify_claim only when the token of the request has been accepted
\* and has given the user of the request; a request with no token, or with
\* a token that does not verify or has expired, does not reach verify_claim.
C23_AuthenticationPrecedesVerification ==
    /\ task[Caller].pc # "idle" => http.verified # None
    /\ http.verified # None =>
          /\ Verified.token \notin {None, Some("invalid"), Some("expired")}
          /\ get_current_user(Verified.token) # None
          /\ Verified.current_user # None

\* verify_claim ran for a request to POST /api/verify_claim that carried no
\* token
C23_VerifiedWithoutToken ==
    /\ http.verified # None
    /\ Verified.endpoint = "/api/verify_claim"
    /\ Verified.token = None
    /\ Done(Caller) /\ Res(Caller).text = Some(<<"a", "b", "c">>)

\* verify_claim ran for a request to POST /analyze whose token had expired:
\* the dependency gave no user and the route went on
C23_VerifiedWithExpiredToken ==
    /\ http.verified # None
    /\ Verified.endpoint = "/analyze"
    /\ Verified.token = Some("expired")
    /\ Verified.current_user = None
    /\ Done(Caller)

\* the request handled last
Last == Get(http.last)

\* C24: of the requests of one client in one window of 60 seconds at most
\* RATE_LIMIT_PER_MINUTE are forwarded to the route; every further request
\* of the client in the window is rejected with 429 and is not forwarded;
\* the requests of other clients and of other windows do not count.
C24_PerClientRateLimit ==
    /\ \A c \in Clients, w \in Windows :
          http.forwarded[c][w] <= RATE_LIMIT_PER_MINUTE
    /\ http.last # None =>
          /\ Last.number > RATE_LIMIT_PER_MINUTE => Last.outcome = "429"
          /\ Last.outcome = "429" => Last.number > RATE_LIMIT_PER_MINUTE

\* the count the limiter holds for a client and a window
CountOf(c, w) ==
    IF REDIS_AVAILABLE
    THEN IF RedisKey(c, w) \in DOMAIN http.rate_keys
         THEN http.rate_keys[RedisKey(c, w)].count ELSE 0
    ELSE IF MemoryKey(c, w) \in DOMAIN http.rate_limit_store
         THEN http.rate_limit_store[MemoryKey(c, w)] ELSE 0

\* C24, without the status of the rejection: at most RATE_LIMIT_PER_MINUTE
\* requests of a client in a window are forwarded, and none is answered 429
\* on account of other clients or windows.
C24_AtMostLimitForwarded ==
    /\ \A c \in Clients, w \in Windows :
          http.forwarded[c][w] <= RATE_LIMIT_PER_MINUTE
    /\ http.last # None =>
          /\ Last.outcome = "429" => Last.number > RATE_LIMIT_PER_MINUTE
          /\ Last.outcome = "429" =>
                http.forwarded[Last.client][Last.window] = RATE_LIMIT_PER_MINUTE

\* C24, for the requests of a client and window all of which the limiter
\* has counted
C24_WhenCounted ==
    http.last # None /\ CountOf(Last.client, Last.window) = Last.number =>
        /\ Last.number > RATE_LIMIT_PER_MINUTE <=> Last.outcome = "429"
        /\ Last.number <= RATE_LIMIT_PER_MINUTE <=> Last.outcome = "pass"

\* with the counts in memory, the third request of the IPv6 client in a
\* window ended in a KeyError
C24_KeyError ==
    /\ ~REDIS_AVAILABLE
    /\ http.last # None
    /\ Last.client = "::1"
    /\ Last.number = RATE_LIMIT_PER_MINUTE + 1
    /\ Last.outcome = "KeyError"
    /\ http.forwarded["::1"][Last.window] = 0

\* with the counts in Redis, the request after the last one forwarded ended
\* in the error of the store
C24_RedisError ==
    /\ REDIS_AVAILABLE
    /\ http.last # None
    /\ http.forwarded[Last.client][Last.window] = RATE_LIMIT_PER_MINUTE
    /\ Last.number = RATE_LIMIT_PER_MINUTE + 1
    /\ Last.outcome = "RedisError"

\* a client was answered 429 in a window and forwarded again in the next
C24_NextWindow ==
    \E c \in Clients :
        /\ http.arrived[c][0] > RATE_LIMIT_PER_MINUTE
        /\ http.forwarded[c][0] = RATE_LIMIT_PER_MINUTE
        /\ http.last # None /\ Last.client = c /\ Last.window = 1
        /\ Last.outcome = "pass"

(***************************************************************************)
(* C31: termination                                                        *)
(***************************************************************************)
Awaiting(t) == task[t].pc \in {"gathering", "primary", "secondary"}

\* a step of the call t is possible: one of its collaborators answers
CanStep(t) ==
    \/ ENABLED (\E reply \in FairSearchReplies :
                  SearchReturns(t, reply) /\ UNCHANGED heard)
    \/ ENABLED (\E reply \in GeminiReplies : GeminiReturns(t, reply))
    \/ ENABLED (\E reply \in OpenAIReplies : OpenAIReturns(t, reply) /\ UNCHANGED heard)

HasStage(tk, stage) == \E i \in 1..Len(tk.stages) : tk.stages[i] = stage

\* the failure (an error or a timeout) of the call's awaited collaborators
\* was answered by the fallback of its step, and the call went on: an empty
\* evidence list and the primary step; the primary default and the secondary
\* step; no second score and the assembly of the result
LocalFallbacks(t) ==
    LET tk == task[t]
    IN  /\ tk.pc # "raised"
        /\ HasStage(tk, "Gathering") /\ tk.pc # "gathering"
              => InOrder(tk.stages, "Gathering", "PrimaryJudging")
        /\ tk.ai_failed
              => /\ tk.score = 50 /\ tk.verdict = "neutral"
                 /\ InOrder(tk.stages, "PrimaryJudging", "SecondaryJudging")
        /\ tk.gpt_res # None /\ Get(tk.gpt_res).gpt_score = None
              => /\ tk.gpt_score = None
                 /\ tk.pc \in {"reconciling", "done"}

\* C31: when every awaited collaborator is answered in the end, every call
\* of verify_claim reaches Done and holds a result; a failed or timed-out
\* call of a collaborator is answered by the fallback of its step; and a
\* call that awaits can always take its next step, whatever the other calls
\* are doing.
C31_Termination ==
    /\ \A t \in Tasks : (task[t].pc # "idle") ~> (Done(t) /\ task[t].result # None)
    /\ [](\A t \in Tasks : LocalFallbacks(t))
    /\ [](\A t \in Tasks : Awaiting(t) => CanStep(t))

\* both calls awaited the three collaborators at the same time or one after
\* the other, the primary judge of one failed, and both are done
C31_Witness ==
    /\ \A t \in Tasks : Done(t) /\ task[t].ncalls.net = {"search", "primary", "secondary"}
    /\ \E t \in Tasks : task[t].ai_failed
    /\ \E t \in Tasks : ~task[t].ai_failed

(***************************************************************************)
(* C34: degraded results are cached                                        *)
(***************************************************************************)
\* the call missed the cache (or has none) and assembled a result after the
\* primary judge failed or the search gave no evidence
Degraded(t) ==
    /\ task[t].final_result # None
    /\ ValidClaim(task[t].claim)
    /\ \/ task[t].ai_failed /\ Final(t).score = 50 /\ Final(t).verdict = "neutral"
       \/ Final(t).evidence = <<>>

ServedFromCache(p, q) ==
    /\ Done(q)
    /\ task[q].lookup = "hit"
    /\ Res(q) = Final(p)
    /\ task[q].ncalls.search = 0
    /\ task[q].ncalls.primary = 0
    /\ task[q].ncalls.secondary = 0

\* C34: with the store available, a call that ends degraded (the primary
\* judge failed: score 50.0, verdict neutral; or the evidence is empty)
\* writes its result to the cache under its key, and the same request made
\* within 86400 seconds of the write returns that result without a call of
\* the search or of a judge.
C34_DegradedCached ==
    /\ \A p \in Tasks :
          REDIS_AVAILABLE /\ Degraded(p) /\ Done(p) =>
              /\ task[p].stored = "ok"
              /\ now < ExpiryOf(p) =>
                    \E e \in redis :
                        /\ e.key = cache_key(task[p].claim, task[p].context)
                        /\ e.expires >= ExpiryOf(p)
    /\ \A p, q \in Tasks :
          Repeats(p, q) /\ Degraded(p) /\ task[q].began < ExpiryOf(p) =>
              ServedFromCache(p, q)

\* C34, for the calls whose reads and writes of the store succeed
C34_WhenStoreAnswers ==
    /\ \A p \in Tasks :
          REDIS_AVAILABLE /\ Degraded(p) /\ Done(p) /\ task[p].stored # "failed" =>
              /\ task[p].stored = "ok"
              /\ now < ExpiryOf(p) =>
                    \E e \in redis :
                        /\ e.key = cache_key(task[p].claim, task[p].context)
                        /\ e.expires >= ExpiryOf(p)
    /\ \A p, q \in Tasks :
          /\ Repeats(p, q) /\ Degraded(p) /\ task[q].began < ExpiryOf(p)
          /\ task[q].lookup # "failed"
          => ServedFromCache(p, q)

\* the result of a call whose primary judge failed and whose search gave no
\* evidence was served to the same request
C34_ServedDegraded ==
    \E p, q \in Tasks :
        /\ Repeats(p, q) /\ Degraded(p) /\ ServedFromCache(p, q)
        /\ task[p].ai_failed /\ Final(p).evidence = <<>>
        /\ task[p].ncalls.net = {"search", "primary", "secondary"}
        /\ Res(q).score = 50 /\ Res(q).verdict = "neutral"

(***************************************************************************)
(* C35: placeholder and error results are not cached                       *)
(***************************************************************************)
IsPlaceholder(r) == r.explanation = <<"Claim too short or empty">>
IsError(r) == r.verdict = "error"

\* the next call of the same request, made after p had returned
NextSame(p, q) ==
    /\ task[q].pc # "idle"
    /\ p \in task[q].pred
    /\ task[p].claim = task[q].claim
    /\ task[p].context = task[q].context

\* C35: the step in which a call returns the placeholder of a too-short
\* claim or the result with the verdict "error" leaves the cache as it was,
\* and no entry of the cache holds such a result; the same request made
\* after a call that returned the error result reads the cache and, on a
\* miss, runs the search and both judges again.
C35_NotCached ==
    /\ [][\A t \in Tasks :
            /\ task[t].pc # "done" /\ task'[t].pc = "done"
            /\ IsPlaceholder(Get(task'[t].result)) \/ IsError(Get(task'[t].result))
            => redis' = redis]_vars
    /\ [](\A e \in redis :
            ~IsPlaceholder(json_loads(e.value)) /\ ~IsError(json_loads(e.value)))
    /\ [](\A p, q \in Tasks :
            NextSame(p, q) /\ IsError(Res(p)) =>
                /\ task[q].ncalls.cache_get = 1
                /\ task[q].lookup # "none"
                /\ task[q].lookup = "miss" /\ Done(q) => Recomputed(q))

\* a call ended with the error result after its write of the cache failed,
\* the cache is empty, and the same request missed and ran the pipeline
C35_Witness ==
    \E p, q \in Tasks :
        /\ NextSame(p, q) /\ IsError(Res(p)) /\ task[p].stored = "failed"
        /\ Done(q) /\ task[q].lookup = "miss" /\ Recomputed(q)
        /\ task[q].stored = "ok"
        /\ \A u \in Tasks : u \notin {p, q} => IsPlaceholder(Res(u))

\* a call returned the placeholder while the cache held the entry of another
C35_WitnessPlaceholder ==
    \E t \in Tasks :
        /\ Done(t) /\ IsPlaceholder(Res(t)) /\ task[t].ncalls = NoCalls
        /\ redis # {}

(***************************************************************************)
(* C32, C33, C36: POST /api/verify_claim after the pipeline                *)
(***************************************************************************)
\* verify_claim_stub has answered the request with the pipeline's result
StubAnswered ==
    /\ Done(Caller)
    /\ http.response # None
    /\ Get(http.response).status = 200

Response == Get(http.response).result
\* the record of the request, once committed
Saved == http.db # <<>>
Record == http.db[1]
Listed == Get(http.claims_list)[1]
\* the score the judge reported, as written
ReportedToken == Get(task[Caller].ai_reply).lines[1].value

\* C32: in POST /api/verify_claim a pipeline score of exactly 0 is taken for
\* a missing one: the response carries the score 50, and the record stores
\* 50 on its scale (50/100), which GET /api/claims lists as 50; every other
\* pipeline score in (0, 100] is the score of the response.
C32_ZeroIsMissing ==
    StubAnswered =>
        /\ Res(Caller).score = 0 =>
              /\ Response.score = 50
              /\ Saved => Record.score = [num |-> 50, den |-> 100]
              /\ Saved /\ http.claims_list # None => Listed.score = 50
        /\ Res(Caller).score \in 1..100 => Response.score = Res(Caller).score

\* the judge reported the score 0, and the record is committed and listed
C32_Witness ==
    /\ StubAnswered /\ Saved /\ http.claims_list # None
    /\ task[Caller].ai_reply # None /\ Get(task[Caller].ai_reply).kind = "text"
    /\ ReportedToken = "0"
    /\ Res(Caller).score = 0
    /\ Response.score = 50 /\ Listed.score = 50

\* the judge reported the score 1, which the response carries
C32_WitnessOne ==
    /\ StubAnswered
    /\ task[Caller].ai_reply # None /\ Get(task[Caller].ai_reply).kind = "text"
    /\ ReportedToken = "1"
    /\ Response.score = 1

UrlsOf(sources) == [i \in 1..Len(sources) |-> sources[i].url]

\* C33: in POST /api/verify_claim, when the pipeline's result has sources,
\* the committed record carries the source links, the verdict and the
\* explanation of the result returned to the client.
C33_RecordCarriesResult ==
    StubAnswered /\ Saved /\ Res(Caller).sources # <<>> =>
        /\ UrlsOf(Response.sources) = UrlsOf(Links(Res(Caller).sources))
        /\ UrlsOf(SourcesLoads(Record.sources)) = UrlsOf(Response.sources)
        /\ Record.verdict = Response.verdict
        /\ Record.explanation = Response.explanation

\* the part of C33 that holds: the response carries the links; the record
\* carries the verdict and the explanation of the response, and claim text
C33_VerdictAndExplanationKept ==
    StubAnswered /\ Saved =>
        /\ Res(Caller).sources # <<>> =>
              UrlsOf(Response.sources) = UrlsOf(Links(Res(Caller).sources))
        /\ Record.verdict = Response.verdict
        /\ Record.explanation = Response.explanation
        /\ Some(Record.claim) = Response.text

\* the pipeline's result has the link u1, and the record holds the one
\* default source in its place
C33_DefaultSourceStored ==
    /\ StubAnswered /\ Saved
    /\ Res(Caller).sources = <<"u1">>
    /\ SourcesLoads(Record.sources) = <<FallbackSource>>

\* the fraction a is at most the fraction b
FractionLE(a, b) == a.num * b.den <= b.num * a.den

\* what the handler stores for the pipeline score s
StoredFor(s) == ScoreValue(ScoreOrDefault(s))

\* C36: for the pipeline score s in [0, 100], the committed record stores
\* s / 100 and GET /api/claims lists the score s; and no pipeline score
\* below s is stored as more than s is.
C36_PersistedScale ==
    StubAnswered /\ Saved /\ Res(Caller).score \in 0..100 =>
        /\ Record.score.num * 100 = Res(Caller).score * Record.score.den
        /\ http.claims_list # None => Listed.score = Res(Caller).score
        /\ \A lower \in 0..Res(Caller).score : FractionLE(StoredFor(lower), Record.score)

\* C36 for the pipeline scores above 1, and without the score 0 below them
C36_ScaleAboveOne ==
    StubAnswered /\ Saved /\ Res(Caller).score \in 2..100 =>
        /\ Record.score.num * 100 = Res(Caller).score * Record.score.den
        /\ http.claims_list # None => Listed.score = Res(Caller).score
        /\ \A lower \in 2..Res(Caller).score : FractionLE(StoredFor(lower), Record.score)

\* the pipeline score 1 is stored as 1 and listed as 100
C36_OneStoredAsWhole ==
    /\ StubAnswered /\ Saved /\ http.claims_list # None
    /\ Res(Caller).score = 1
    /\ Record.score = [num |-> 1, den |-> 1]
    /\ Listed.score = 100
====
